---- MODULE Spec2Model ----
(***************************************************************************)
(* TalkDub job orchestration core: the job record file of one job, the     *)
(* submission handler that creates it, the Celery task that drives it      *)
(* through the phases, the download handlers of the Delivery Gate with     *)
(* their in-process PIN map, and the phase runner BasePhase.run.           *)
(*                                                                         *)
(* The components that are followed on their own each have a group of      *)
(* variables and a specification: the phase runner (SpecPhase), the        *)
(* orchestrator (SpecOrch), the two PIN stores (SpecPin, SpecPinRace,      *)
(* SpecDeliver), the rate limiter within one UTC minute (SpecRate) and the *)
(* segment chunker (SpecChunk).  A specification leaves the variables of   *)
(* the other components at their idle values.                              *)
(*                                                                         *)
(* Time is counted in hours.  A datetime is an integer number of hours,    *)
(* None is NoTime; the ISO text written to expires_at is kept as that      *)
(* integer, so the comparison of download.py:52 is modelled on the         *)
(* instants it compares (the naive/aware mismatch of the two operands in   *)
(* that line is not modelled).                                             *)
(***************************************************************************)
EXTENDS Integers, Sequences, FiniteSets, TLC

VARIABLES
    jobFile,    \* content of data/jobs/{job_id}.json
    tmpFile,    \* content of data/jobs/{job_id}.tmp
    fd,         \* per process: where the file it holds open for writing now lives
    buf,        \* per process: the job dict handed to save_job
    spc,        \* per process: position inside save_job
    exc,        \* per process: save_job raised JobStorageError
    now,        \* datetime.utcnow(), hours
    cpc,        \* create_job position
    queued,     \* the job id is in the Celery queue
    wpc,        \* process_job_task position
    wi,         \* index of the phase the task is at
    wexc,       \* str(exc) of the exception that left process_job_task
    phaseLog,   \* phases the task has run, with their outcome
    completedAt,\* utcnow() read by the completion block (tasks.py:111)
    hpc,        \* per handler: download_job position
    hjob,       \* per handler: the local dict `job` of download_job
    hvalid,     \* per handler: is_valid returned by verify_pin
    hnow,       \* per handler: utcnow() read by the expiry check
    resp,       \* per handler: status code of the last response
    pins,       \* per handler process: PINManager._pins[job_id]
    delivered,  \* download requests answered with the archive so far
    ppid,       \* BasePhase.run: get_phase_id() of the phase that is run
    maxRetriesArg, \* BasePhase.run: the max_retries argument, 0 for None
    pjob,       \* BasePhase.run: the job dict in the job file
    scratch,    \* BasePhase.run: the files present in temp/{job_id}
    env,        \* BasePhase.run: the environment keys with a non-empty value
    rpc,        \* BasePhase.run: position
    attempt,    \* BasePhase.run: loop variable of the retry loop
    executeCalls, \* BasePhase.run: invocations of execute() so far
    sleeps,     \* BasePhase.run: the delays passed to time.sleep so far
    result,     \* BasePhase.run: the PhaseResult returned
    resultMetadata, \* BasePhase.run: the metadata of that PhaseResult
    phases,     \* PipelineOrchestrator: config.phases, by phase name
    stop_on_error, \* PipelineOrchestrator: config.stop_on_error
    opc,        \* PipelineOrchestrator.run: position
    oi,         \* PipelineOrchestrator.run: index of the phase of this pass
    ojob,       \* PipelineOrchestrator.run: the record in the job file
    results,    \* PipelineOrchestrator.run: the results dict
    executed,    \* PipelineOrchestrator.run: the calls of phase.run() so far
    redis,      \* PIN store: the hash at talkdub:pin:{job_id} and its expiry
    gpc,        \* generate_pin: position
    vpc,        \* per caller of verify_pin: position
    vcand,      \* per caller of verify_pin: the pin argument
    vdata,      \* per caller of verify_pin: stored_pin and attempts as read
    vres,       \* per caller of verify_pin: the tuple returned last
    rrun,       \* wrong verify calls on the hash since it was written anew
    mres,       \* notification.PINManager.verify_pin: the tuple returned last
    mcand,      \* notification.PINManager.verify_pin: the pin argument
    mrun,        \* wrong verify calls on the map entry since generate_pin
    pstore,      \* which PINManager a run of the PIN store follows
    issued,      \* the PIN generate_pin returned last, with its expiry
    counter,    \* RateLimiter: the count under the key of the minute, 0 for none
    apc,        \* per worker in acquire: what its GET has told it
    acquired,    \* acquire calls that returned True in the minute
    segments,   \* chunk_segments: the argument, each segment with its position
    charLimitArg, \* chunk_segments: the char_limit argument, 0 for None
    segLimitArg,  \* chunk_segments: the seg_limit argument, 0 for None
    kpc,        \* chunk_segments: position
    ki,         \* chunk_segments: index of the segment of this pass
    chunks,     \* chunk_segments: chunks
    current_chunk, \* chunk_segments: current_chunk
    current_chars,  \* chunk_segments: current_chars
    tjob,       \* translation: the segments of the job file
    tsegs,      \* TranslationPhase.execute: segments
    tchunks,    \* TranslationPhase.execute: chunks, each the positions of its segments
    tpc,        \* translation: position in run() and execute()
    tattempt,   \* translation: attempt of run()
    ti,         \* TranslationPhase.execute: i, the number of the chunk
    failed_chunks, \* TranslationPhase.execute: failed_chunks
    tcalls,     \* translation: the chunks translate was called with in this attempt
    tresult,     \* translation: what run() returned
    gmaxArg,    \* GroqClient.translate: the max_retries argument, 0 for None
    qpc,        \* GroqClient.translate: position
    gattempt,   \* GroqClient.translate: attempt
    requests,   \* GroqClient.translate: calls of chat.completions.create so far
    gfailed,    \* GroqClient.translate: requests that ended in an error that is retried
    gtimeouts,  \* GroqClient.translate: attempts that did not get the rate limiter
    gsleeps,    \* GroqClient.translate: the arguments of time.sleep, in order
    gerr,        \* GroqClient.translate: the error of the last attempt
    jobsDir,    \* submissions: the job files of settings.JOBS_DIR
    subpc,      \* create_job: position, per server process
    pending,    \* create_job: the submission being handled, per server process
    subresp,    \* create_job: the last response, per server process
    enqueued,   \* submissions: the job ids given to enqueue_job
    nextId,     \* submissions: the job ids generated so far, plus one
    submitted,  \* submissions: requests received so far
    subNow,     \* submissions: the time, in hours
    oneLoop,     \* submissions: the handlers run in one event loop
    minuteCount, \* RateLimiter, one caller: the count under the key of the minute, 0 for none
    second,     \* RateLimiter, one caller: the second of the minute, 60 once the next minute has begun
    waited,     \* RateLimiter, one caller: time.time() - start
    timeoutArg, \* RateLimiter, one caller: the timeout argument
    lpc,        \* RateLimiter, one caller: position in acquire
    acquireCalls, \* RateLimiter, one caller: calls of acquire begun in the minute
    acquireTrue, \* RateLimiter, one caller: calls that returned True on the key of the minute
    acquireRet,  \* RateLimiter, one caller: what the last call returned
    texts,      \* translate, step by step: the texts of the chunk
    cacheEnabled, \* TranslationCache.enabled
    cacheEntry, \* TranslationCache: the list under the key of the texts, << >> for none
    xmax,       \* translate, step by step: max_retries
    xpc,        \* translate, step by step: position
    xattempt,   \* translate, step by step: attempt
    response,   \* translate, step by step: the content of the LLM response
    translations, \* translate, step by step: what _parse_response returned
    steps,      \* translate, step by step: the steps taken, in order
    xret,       \* translate, step by step: the list returned, << >> for none
    verdict,     \* translate, step by step: what the last validation counted and said
    ypc,        \* TTSPhase.execute: position
    processable_segments, \* TTSPhase.execute: the positions of the segments to synthesize
    yi,         \* TTSPhase.execute: index in processable_segments, from 1
    synthesized, \* TTSPhase.execute: the positions given to tts_client.synthesize, in order
    failed_count, \* TTSPhase.execute: failed_count
    yresult,     \* TTSPhase.execute: "none", "success" or "failure" (PhaseError)
    technical_error, \* ErrorTranslator.translate: the argument, by its lengths
    epc,        \* ErrorTranslator.translate: position
    message,     \* ErrorTranslator.translate: the message returned
    sweepPc,    \* PINManager.cleanup_expired: position
    swept       \* PINManager.cleanup_expired: what the key held when it was last deleted

gateVars == <<hpc, hjob, hvalid, hnow, resp, pins, delivered>>
saveVars == <<fd, buf, spc, exc>>
fileVars == <<jobFile, tmpFile>>
workerVars == <<wpc, wi, wexc, phaseLog, completedAt>>
createVars == <<cpc, queued>>
phaseVars == <<ppid, maxRetriesArg, pjob, scratch, env, rpc, attempt,
               executeCalls, sleeps, result, resultMetadata>>
lifeVars == <<jobFile, tmpFile, fd, buf, spc, exc, now, cpc, queued, wpc, wi,
              wexc, phaseLog, completedAt, hpc, hjob, hvalid, hnow, resp, pins,
              delivered>>
orchVars == <<phases, stop_on_error, opc, oi, ojob, results, executed>>
chunkVars == <<segments, charLimitArg, segLimitArg, kpc, ki, chunks,
               current_chunk, current_chars>>
transVars == <<tjob, tsegs, tchunks, tpc, tattempt, ti, failed_chunks,
               tcalls, tresult>>
groqVars == <<gmaxArg, qpc, gattempt, requests, gfailed, gtimeouts, gsleeps,
              gerr>>
singleVars == <<minuteCount, second, waited, timeoutArg, lpc, acquireCalls,
                acquireTrue, acquireRet>>
stepVars == <<texts, cacheEnabled, cacheEntry, xmax, xpc, xattempt, response,
              translations, steps, xret, verdict>>
ttsVars == <<ypc, processable_segments, yi, synthesized, failed_count,
             yresult>>
errVars == <<technical_error, epc, message>>
sweepVars == <<sweepPc, swept>>
submitVars == <<jobsDir, subpc, pending, subresp, enqueued, nextId,
                submitted, subNow, oneLoop>>
rateVars == <<counter, apc, acquired>>
pinVars == <<redis, gpc, vpc, vcand, vdata, vres, rrun, mres, mcand, mrun,
             pstore, issued>>
notLifeVars == <<phaseVars, orchVars, pinVars, rateVars, chunkVars, transVars, groqVars, submitVars, singleVars, stepVars, ttsVars, errVars, sweepVars>>
notPhaseVars == <<lifeVars, orchVars, pinVars, rateVars, chunkVars, transVars, groqVars, submitVars, singleVars, stepVars, ttsVars, errVars, sweepVars>>
notOrchVars == <<lifeVars, phaseVars, pinVars, rateVars, chunkVars, transVars, groqVars, submitVars, singleVars, stepVars, ttsVars, errVars, sweepVars>>
notPinVars == <<lifeVars, phaseVars, orchVars, rateVars, chunkVars, transVars, groqVars, submitVars, singleVars, stepVars, ttsVars, errVars, sweepVars>>
notRateVars == <<lifeVars, phaseVars, orchVars, pinVars, chunkVars, transVars, groqVars, submitVars, singleVars, stepVars, ttsVars, errVars, sweepVars>>
notChunkVars == <<lifeVars, phaseVars, orchVars, pinVars, rateVars, transVars, groqVars, submitVars, singleVars, stepVars, ttsVars, errVars, sweepVars>>
notTransVars == <<lifeVars, phaseVars, orchVars, pinVars, rateVars, chunkVars, groqVars, submitVars, singleVars, stepVars, ttsVars, errVars, sweepVars>>
notGroqVars == <<lifeVars, phaseVars, orchVars, pinVars, rateVars, chunkVars, transVars, submitVars, singleVars, stepVars, ttsVars, errVars, sweepVars>>
notSubmitVars == <<lifeVars, phaseVars, orchVars, pinVars, rateVars, chunkVars, transVars, groqVars, singleVars, stepVars, ttsVars, errVars, sweepVars>>
notSingleVars == <<lifeVars, phaseVars, orchVars, pinVars, rateVars, chunkVars, transVars, groqVars, submitVars, stepVars, ttsVars, errVars, sweepVars>>
notStepVars == <<lifeVars, phaseVars, orchVars, pinVars, rateVars, chunkVars, transVars, groqVars, submitVars, singleVars, ttsVars, errVars, sweepVars>>
notTtsVars == <<lifeVars, phaseVars, orchVars, pinVars, rateVars, chunkVars, transVars, groqVars, submitVars, singleVars, stepVars, errVars, sweepVars>>
notErrVars == <<lifeVars, phaseVars, orchVars, pinVars, rateVars, chunkVars, transVars, groqVars, submitVars, singleVars, stepVars, ttsVars, sweepVars>>
notSweepVars == <<lifeVars, phaseVars, orchVars, pinVars, rateVars, chunkVars, transVars, groqVars, submitVars, singleVars, stepVars, ttsVars, errVars>>
notLifePinVars == <<phaseVars, orchVars, rateVars, chunkVars, transVars, groqVars, submitVars, singleVars, stepVars, ttsVars, errVars, sweepVars>>
notPinSweepVars == <<lifeVars, phaseVars, orchVars, rateVars, chunkVars, transVars, groqVars, submitVars, singleVars, stepVars, ttsVars, errVars>>
vars == <<lifeVars, phaseVars, orchVars, pinVars, rateVars, chunkVars, transVars, groqVars, submitVars, singleVars, stepVars, ttsVars, errVars, sweepVars>>

----------------------------------------------------------------------------
(* Bounds *)

MaxTicks == 2
MaxRetriesArg == 1
MaxBackoffRetriesArg == 4
MaxPhases == 3
NumWorkers == 2
MaxSegs == 4
MaxCharLimit == 3
MaxSegLimit == 2
MaxTestSegs == 3
MaxTestCount == 50
MaxTransSegs == 3
MaxGroqRetriesArg == 3
MaxSubmissions == 3
MaxSubTicks == 2
TickSeconds == 20
ExtraAcquires == 2
MaxItems == 2
BigChunk == 10
MaxErrorLen == 210

(* Program constants *)

MAX_DOWNLOADS == 5
MAX_ATTEMPTS == 5
DELIVERY_RETENTION_HOURS == 72
PHASE_MAX_RETRIES == 3
PHASE_RETRY_DELAY_SEC == 5
GROQ_RATE_LIMIT_RPM == 60
CHUNK_CHAR_LIMIT_SRC == 2000
CHUNK_SEG_LIMIT == 30
GROQ_MAX_RETRIES == 5
BACKOFF_BASE_SEC == 2
RATE_LIMIT_SLEEP_SEC == 60
DUPLICATE_WINDOW_HOURS == 24
UNEXPECTED_ERROR_LEN == 15
GROQ_RATE_LIMIT_BUFFER_PERCENT == 90
PIN_EXPIRY_HOURS == 72

Workers == 1..NumWorkers
Callers == {"c1", "c2"}
Handlers == {"h1", "h2"}
Worker == "worker"
Procs == Handlers \cup {Worker}

PinValues == {1, 2}

NoTime == -1
NullStr == "null"

PhaseNames ==
    << "Pre-0: Download", "Pre-1: Normalize", "Pre-2: Separate",
       "Pre-3: WhisperX", "Pre-3.5: VAD", "Pre-4: RefAudio",
       "Pre-5: Hallucination", "Translation", "TTS", "Post-1: Timeline",
       "Post-2: Mix", "Post-3: Finalize", "Post-4: Manifest" >>

NumPhases == Len(PhaseNames)

ErrorMessages == {"phase failed"}

----------------------------------------------------------------------------
(* File contents and job records *)

Absent == [kind |-> "absent"]
Partial == [kind |-> "partial"]

JobRecord(st, ph, er, dc, ex) ==
    [kind |-> "record", status |-> st, current_phase |-> ph, error |-> er,
     download_count |-> dc, expires_at |-> ex]

IsRecord(c) == c.kind = "record"

NewJobData == JobRecord("QUEUED", NullStr, NullStr, 0, NoTime)

NoPin == [present |-> FALSE, pin |-> 0, attempts |-> 0, expires |-> NoTime]

----------------------------------------------------------------------------
(* Job Store: app/services/storage.py *)

\* load_job raises JobNotFoundError on a missing file and JobStorageError on
\* a file that does not parse; it returns the record otherwise.
LoadRaises(c) == ~IsRecord(c)

\* update_job_status that forgets the error argument
UpdateJobStatusDropsError(job, status, current_phase, error) ==
    LET j1 == [job EXCEPT !.status = status]
    IN  IF current_phase # NullStr
          THEN [j1 EXCEPT !.current_phase = current_phase] ELSE j1

\* update_job_status, the dict it hands to save_job
UpdateJobStatus(job, status, current_phase, error) ==
    LET j1 == [job EXCEPT !.status = status]
        j2 == IF current_phase # NullStr
                THEN [j1 EXCEPT !.current_phase = current_phase] ELSE j1
    IN  IF error # NullStr /\ error # ""
          THEN [j2 EXCEPT !.error = error] ELSE j2

\* save_job(job) is entered: nothing is written yet
BeginSave(p, job) ==
    /\ buf' = [buf EXCEPT ![p] = job]
    /\ spc' = [spc EXCEPT ![p] = "open"]
    /\ exc' = [exc EXCEPT ![p] = FALSE]
    /\ UNCHANGED fd

\* temp_path.write_text: open(temp_path, "w") creates or truncates the file
SaveOpen(p) ==
    /\ spc[p] = "open"
    /\ tmpFile' = Partial
    /\ fd' = [fd EXCEPT ![p] = "tmp"]
    /\ spc' = [spc EXCEPT ![p] = "write"]
    /\ UNCHANGED <<jobFile, buf, exc>>
    /\ UNCHANGED <<now, createVars, workerVars, gateVars>>
    /\ UNCHANGED notLifeVars

\* temp_path.write_text: the text reaches the file that was opened, wherever
\* a rename has moved it in the meantime, and the file is closed
SaveWrite(p) ==
    /\ spc[p] = "write"
    /\ tmpFile' = IF fd[p] = "tmp" THEN buf[p] ELSE tmpFile
    /\ jobFile' = IF fd[p] = "job" THEN buf[p] ELSE jobFile
    /\ fd' = [fd EXCEPT ![p] = "none"]
    /\ spc' = [spc EXCEPT ![p] = "replace"]
    /\ UNCHANGED <<buf, exc>>
    /\ UNCHANGED <<now, createVars, workerVars, gateVars>>
    /\ UNCHANGED notLifeVars

\* temp_path.replace(job_path); FileNotFoundError becomes JobStorageError
SaveReplace(p) ==
    /\ spc[p] = "replace"
    /\ IF tmpFile = Absent
         THEN /\ exc' = [exc EXCEPT ![p] = TRUE]
              /\ UNCHANGED <<jobFile, tmpFile, fd>>
         ELSE /\ jobFile' = tmpFile
              /\ tmpFile' = Absent
              /\ fd' = [q \in Procs |->
                          IF fd[q] = "tmp" THEN "job"
                          ELSE IF fd[q] = "job" THEN "orphan" ELSE fd[q]]
              /\ UNCHANGED exc
    /\ spc' = [spc EXCEPT ![p] = "none"]
    /\ UNCHANGED buf
    /\ UNCHANGED <<now, createVars, workerVars, gateVars>>
    /\ UNCHANGED notLifeVars

----------------------------------------------------------------------------
(* Submission: app/api/jobs.py create_job *)

\* job_path.write_text: open(job_path, "w") creates the empty file
CreateOpen ==
    /\ cpc = "start"
    /\ jobFile = Absent
    /\ jobFile' = Partial
    /\ cpc' = "opened"
    /\ UNCHANGED <<tmpFile, saveVars, now, queued, workerVars, gateVars>>
    /\ UNCHANGED notLifeVars

\* job_path.write_text: job_data reaches the file
CreateWrite ==
    /\ cpc = "opened"
    /\ jobFile' = NewJobData
    /\ cpc' = "written"
    /\ UNCHANGED <<tmpFile, saveVars, now, queued, workerVars, gateVars>>
    /\ UNCHANGED notLifeVars

\* enqueue_job(job_id) and the 202 response
CreateEnqueue ==
    /\ cpc = "written"
    /\ queued' = TRUE
    /\ cpc' = "done"
    /\ UNCHANGED <<fileVars, saveVars, now, workerVars, gateVars>>
    /\ UNCHANGED notLifeVars

\* the server process dies inside create_job
CreateCrash ==
    /\ cpc \in {"opened", "written"}
    /\ cpc' = "crashed"
    /\ UNCHANGED <<fileVars, saveVars, now, queued, workerVars, gateVars>>
    /\ UNCHANGED notLifeVars

----------------------------------------------------------------------------
(* Job Worker: pipeline/tasks.py *)

WorkerDequeue ==
    /\ queued
    /\ wpc = "idle"
    /\ queued' = FALSE
    /\ wpc' = "update"
    /\ wi' = 1
    /\ UNCHANGED <<fileVars, saveVars, now, cpc, wexc, phaseLog, completedAt,
                   gateVars>>
    /\ UNCHANGED notLifeVars

\* the exception leaves process_job_task and Celery calls on_failure
Raise(msg) ==
    /\ wpc' = "on_failure"
    /\ wexc' = msg

\* update_job_status(job_id, "PROCESSING", current_phase=<name>)
WorkerUpdateStatus ==
    /\ wpc = "update"
    /\ spc[Worker] = "none"
    /\ IF LoadRaises(jobFile)
         THEN /\ Raise("load failed")
              /\ UNCHANGED saveVars
         ELSE /\ BeginSave(Worker, UpdateJobStatus(jobFile, "PROCESSING",
                                                   PhaseNames[wi], NullStr))
              /\ wpc' = "phase"
              /\ UNCHANGED wexc
    /\ UNCHANGED <<fileVars, now, createVars, wi, phaseLog, completedAt,
                   gateVars>>
    /\ UNCHANGED notLifeVars

\* a phase wrapper that does not raise on result.success = False
WorkerRunPhaseIgnoresFailure ==
    /\ wpc = "phase"
    /\ spc[Worker] = "none"
    /\ \E ok \in BOOLEAN :
         /\ phaseLog' = Append(phaseLog, [phase |-> wi, ok |-> ok])
         /\ wpc' = IF wi < NumPhases THEN "update" ELSE "complete"
         /\ wi' = IF wi < NumPhases THEN wi + 1 ELSE wi
         /\ UNCHANGED wexc
    /\ UNCHANGED <<fileVars, saveVars, now, createVars, completedAt, gateVars>>
    /\ UNCHANGED notLifeVars

\* phase_<x>(job_id): the phase runs and either returns or raises PhaseError
WorkerRunPhase ==
    /\ wpc = "phase"
    /\ spc[Worker] = "none"
    /\ IF exc[Worker]
         THEN /\ Raise("save failed")
              /\ UNCHANGED <<wi, phaseLog>>
         ELSE \E ok \in BOOLEAN, msg \in ErrorMessages :
                /\ phaseLog' = Append(phaseLog, [phase |-> wi, ok |-> ok])
                /\ IF ok
                     THEN /\ wpc' = IF wi < NumPhases THEN "update"
                                                      ELSE "complete"
                          /\ wi' = IF wi < NumPhases THEN wi + 1 ELSE wi
                          /\ UNCHANGED wexc
                     ELSE /\ Raise(msg)
                          /\ UNCHANGED wi
    /\ UNCHANGED <<fileVars, saveVars, now, createVars, completedAt, gateVars>>
    /\ UNCHANGED notLifeVars

\* a completion block that forgets expires_at
CompletedRecordNoExpiry(job, t) ==
    [job EXCEPT !.status = "COMPLETED", !.current_phase = NullStr]

\* the record of the completion block, t being utcnow()
CompletedRecord(job, t) ==
    [job EXCEPT !.status = "COMPLETED",
                !.current_phase = NullStr,
                !.expires_at = t + DELIVERY_RETENTION_HOURS]

\* the completion block: load, COMPLETED, current_phase None, expires_at
WorkerComplete ==
    /\ wpc = "complete"
    /\ IF LoadRaises(jobFile)
         THEN /\ Raise("load failed")
              /\ UNCHANGED <<saveVars, completedAt>>
         ELSE /\ BeginSave(Worker, CompletedRecord(jobFile, now))
              /\ completedAt' = now
              /\ wpc' = "notify_completed"
              /\ UNCHANGED wexc
    /\ UNCHANGED <<fileVars, now, createVars, wi, phaseLog, gateVars>>
    /\ UNCHANGED notLifeVars

\* a notification that raises inside the task after COMPLETED was saved
WorkerNotifyCompletedRaises ==
    /\ wpc = "notify_completed"
    /\ spc[Worker] = "none"
    /\ Raise("email failed")
    /\ UNCHANGED <<fileVars, saveVars, now, createVars, wi, phaseLog,
                   completedAt, gateVars>>
    /\ UNCHANGED notLifeVars

\* send_job_completed_email and the end of the task
WorkerNotifyCompleted ==
    /\ wpc = "notify_completed"
    /\ spc[Worker] = "none"
    /\ IF exc[Worker]
         THEN Raise("save failed")
         ELSE wpc' = "done" /\ UNCHANGED wexc
    /\ UNCHANGED <<fileVars, saveVars, now, createVars, wi, phaseLog,
                   completedAt, gateVars>>
    /\ UNCHANGED notLifeVars

\* JobTask.on_failure: update_job_status(job_id, "FAILED", error=str(exc))
WorkerOnFailure ==
    /\ wpc = "on_failure"
    /\ IF LoadRaises(jobFile)
         THEN /\ wpc' = "done"
              /\ UNCHANGED saveVars
         ELSE /\ BeginSave(Worker,
                           UpdateJobStatus(jobFile, "FAILED", NullStr, wexc))
              /\ wpc' = "notify_failed"
    /\ UNCHANGED <<fileVars, now, createVars, wi, wexc, phaseLog, completedAt,
                   gateVars>>
    /\ UNCHANGED notLifeVars

\* JobTask.on_failure: load_job, send_job_failed_email, the end of the task
WorkerNotifyFailed ==
    /\ wpc = "notify_failed"
    /\ spc[Worker] = "none"
    /\ wpc' = "done"
    /\ UNCHANGED <<fileVars, saveVars, now, createVars, wi, wexc, phaseLog,
                   completedAt, gateVars>>
    /\ UNCHANGED notLifeVars

----------------------------------------------------------------------------
(* PIN map of one server process: app/services/notification.py PINManager *)

\* generate_pin: six random digits, 72 hours, attempts 0
GeneratePin(h) ==
    /\ \E pin \in PinValues :
         pins' = [pins EXCEPT ![h] =
                    [present |-> TRUE, pin |-> pin, attempts |-> 0,
                     expires |-> now + PIN_EXPIRY_HOURS]]
    /\ UNCHANGED <<fileVars, saveVars, now, createVars, workerVars, hpc, hjob,
                   hvalid, hnow, resp, delivered>>
    /\ UNCHANGED notLifeVars

\* verify_pin: the tuple's first component, the entry it leaves behind and
\* the number it reports as remaining
VerifyPin(entry, candidate, t) ==
    IF ~entry.present
      THEN [ok |-> FALSE, entry |-> entry, msg |-> "not found", remaining |-> 0]
    ELSE IF t > entry.expires
      THEN [ok |-> FALSE, entry |-> entry, msg |-> "expired", remaining |-> 0]
    ELSE IF entry.attempts >= MAX_ATTEMPTS
      THEN [ok |-> FALSE, entry |-> entry, msg |-> "locked", remaining |-> 0]
    ELSE LET e == [entry EXCEPT !.attempts = entry.attempts + 1]
         IN  IF e.pin = candidate
               THEN [ok |-> TRUE, entry |-> e, msg |-> "", remaining |-> 0]
               ELSE [ok |-> FALSE, entry |-> e, msg |-> "wrong",
                     remaining |-> MAX_ATTEMPTS - e.attempts]

----------------------------------------------------------------------------
(* Delivery Gate: app/api/download.py download_job *)

\* a gate that forgets the status check
GateCodeNoStatusCheck(file, v, t, outdir) ==
    IF file = Absent THEN 404
    ELSE IF ~v.ok THEN 403
    ELSE IF LoadRaises(file) THEN 500
    ELSE IF file.expires_at # NoTime /\ t > file.expires_at THEN 410
    ELSE IF file.download_count >= MAX_DOWNLOADS THEN 429
    ELSE IF ~outdir THEN 500
    ELSE 200

\* the status code download_job answers with on what it reads, 200 standing
\* for "goes on to save the incremented count"
GateCode(file, v, t, outdir) ==
    IF file = Absent THEN 404
    ELSE IF ~v.ok THEN 403
    ELSE IF LoadRaises(file) THEN 500
    ELSE IF file.status # "COMPLETED" THEN 400
    ELSE IF file.expires_at # NoTime /\ t > file.expires_at THEN 410
    ELSE IF file.download_count >= MAX_DOWNLOADS THEN 429
    ELSE IF ~outdir THEN 500
    ELSE 200

\* download_job up to save_job: the existence check, verify_pin, load_job, the
\* checks, the archive and the increment of the local dict.  The reads of the
\* job file are taken at the instant of load_job; the locals of a request
\* that is rejected die with it.
DownloadGate(h) ==
    /\ hpc[h] = "idle"
    /\ \E candidate \in PinValues, outdir \in BOOLEAN :
         LET v == IF jobFile = Absent
                    THEN [ok |-> FALSE, entry |-> pins[h], msg |-> "",
                          remaining |-> 0]
                    ELSE VerifyPin(pins[h], candidate, now)
             code == GateCode(jobFile, v, now, outdir)
         IN  /\ pins' = [pins EXCEPT ![h] = v.entry]
             /\ hvalid' = [hvalid EXCEPT ![h] = IF code = 200 THEN v.ok
                                                               ELSE FALSE]
             /\ hnow' = [hnow EXCEPT ![h] = IF code = 200 THEN now ELSE 0]
             /\ IF code = 200
                  THEN /\ hjob' = [hjob EXCEPT ![h] =
                                     [jobFile EXCEPT !.download_count =
                                                       jobFile.download_count + 1]]
                       /\ BeginSave(h, hjob'[h])
                       /\ hpc' = [hpc EXCEPT ![h] = "saving"]
                       /\ resp' = [resp EXCEPT ![h] = 0]
                  ELSE /\ hjob' = [hjob EXCEPT ![h] = Absent]
                       /\ resp' = [resp EXCEPT ![h] = code]
                       /\ UNCHANGED <<saveVars, hpc>>
    /\ UNCHANGED <<fileVars, now, createVars, workerVars, delivered>>
    /\ UNCHANGED notLifeVars

\* download_job after save_job: the FileResponse, or 500 when save_job raised
DownloadRespond(h) ==
    /\ hpc[h] = "saving"
    /\ spc[h] = "none"
    /\ hpc' = [hpc EXCEPT ![h] = "idle"]
    /\ resp' = [resp EXCEPT ![h] = IF exc[h] THEN 500 ELSE 200]
    /\ delivered' = IF exc[h] THEN delivered ELSE delivered + 1
    /\ UNCHANGED <<fileVars, saveVars, now, createVars, workerVars, hjob,
                   hvalid, hnow, pins>>
    /\ UNCHANGED notLifeVars

----------------------------------------------------------------------------
(* The clock *)

Tick ==
    /\ now + DELIVERY_RETENTION_HOURS <= MaxTicks * DELIVERY_RETENTION_HOURS
    /\ now' = now + DELIVERY_RETENTION_HOURS
    /\ UNCHANGED <<fileVars, saveVars, createVars, workerVars, gateVars>>
    /\ UNCHANGED notLifeVars

----------------------------------------------------------------------------
(* Phase Registry: pipeline/phase_dependencies.py *)

\* PhaseID, the values of the enumeration
PhaseIDs ==
    { "pre_0", "pre_1", "pre_2", "pre_3", "pre_3.5", "pre_4", "pre_5",
      "translation", "tts", "post_1", "post_2", "post_3", "post_4" }

PhaseDependency(files, fields, envs) ==
    [required_files |-> files, required_job_fields |-> fields,
     required_env_vars |-> envs]

\* a dotted field path, split at the dots
SourceUrl == << "source", "url" >>
MediaDuration == << "media", "duration_sec" >>
SrcLang == << "languages", "src_lang" >>
TgtLang == << "languages", "tgt_lang" >>
Segments == << "segments" >>
Speakers == << "speakers" >>

RegisteredPhaseIDs ==
    { "pre_0", "pre_1", "pre_2", "pre_3", "pre_3.5", "pre_4", "pre_5",
      "translation", "tts" }

\* PHASE_DEPENDENCIES, with the two entries added at the end of the module
PHASE_DEPENDENCIES ==
    [id \in RegisteredPhaseIDs |->
       CASE id = "pre_0" ->
              PhaseDependency(<< >>, << SourceUrl >>, << >>)
         [] id = "pre_1" ->
              PhaseDependency(<< "original.wav" >>, << MediaDuration >>, << >>)
         [] id = "pre_2" ->
              PhaseDependency(<< "normalized.wav" >>, << MediaDuration >>, << >>)
         [] id = "pre_3" ->
              PhaseDependency(<< "pre_voice.wav" >>, << SrcLang >>,
                              << "HF_TOKEN" >>)
         [] id = "pre_3.5" ->
              PhaseDependency(<< "pre_voice.wav" >>, << Segments >>, << >>)
         [] id = "pre_4" ->
              PhaseDependency(<< "pre_voice.wav" >>, << Segments, Speakers >>,
                              << >>)
         [] id = "pre_5" ->
              PhaseDependency(<< >>, << Segments, SrcLang >>, << >>)
         [] id = "translation" ->
              PhaseDependency(<< >>, << Segments, SrcLang, TgtLang >>,
                              << "GROQ_API_KEY" >>)
         [] id = "tts" ->
              PhaseDependency(<< "pre_voice.wav" >>,
                              << Segments, Speakers, TgtLang >>,
                              << "HF_TOKEN" >>)]

\* values of a job dict: a dict, a list, or anything else
Dict(f) == [t |-> "dict", d |-> f]
ListVal == [t |-> "list"]
Scalar == [t |-> "scalar"]

\* a list and a scalar that differ from the ones a job dict starts with
NewList == [t |-> "list", v |-> "new"]
NewScalar == [t |-> "scalar", v |-> "new"]

\* the walk along the keys of one field path: every key must be found in a
\* dict
RECURSIVE HasPath(_, _)
HasPath(current, keys) ==
    IF keys = << >> THEN TRUE
    ELSE IF current.t # "dict" \/ Head(keys) \notin DOMAIN current.d THEN FALSE
    ELSE HasPath(current.d[Head(keys)], Tail(keys))

\* the first of the positions of a list at which a for loop stops
First(positions) == CHOOSE i \in positions : \A j \in positions : i <= j

Valid == [ok |-> TRUE, kind |-> "", item |-> << >>]
Invalid(kind, item) == [ok |-> FALSE, kind |-> kind, item |-> item]

\* the positions at which each of the three loops would stop
MissingFiles(dep, files) ==
    {i \in 1..Len(dep.required_files) : dep.required_files[i] \notin files}

MissingFields(dep, job) ==
    {i \in 1..Len(dep.required_job_fields) :
        ~HasPath(job, dep.required_job_fields[i])}

MissingEnvVars(dep, environ) ==
    {i \in 1..Len(dep.required_env_vars) :
        dep.required_env_vars[i] \notin environ}

\* a check that forgets the environment keys
ValidateNoEnvCheck(dep, job, files, environ) ==
    LET f == MissingFiles(dep, files)
        p == MissingFields(dep, job)
    IN  IF f # {} THEN Invalid("file", << dep.required_files[First(f)] >>)
        ELSE IF p # {} THEN Invalid("field", dep.required_job_fields[First(p)])
        ELSE Valid

\* validate_phase_preconditions after get_dependency: files, then job
\* fields, then environment keys; the message names the first one missing
Validate(dep, job, files, environ) ==
    LET f == MissingFiles(dep, files)
        p == MissingFields(dep, job)
        v == MissingEnvVars(dep, environ)
    IN  IF f # {} THEN Invalid("file", << dep.required_files[First(f)] >>)
        ELSE IF p # {} THEN Invalid("field", dep.required_job_fields[First(p)])
        ELSE IF v # {}
          THEN Invalid("env", << dep.required_env_vars[First(v)] >>)
        ELSE Valid

----------------------------------------------------------------------------
(* Phase Framework: pipeline/base_phase.py *)

NoResult == [success |-> FALSE, error |-> "none", item |-> << >>]
Success == [success |-> TRUE, error |-> "", item |-> << >>]
Failure(kind, item) == [success |-> FALSE, error |-> kind, item |-> item]

\* max_retries or settings.PHASE_MAX_RETRIES
MaxRetries == IF maxRetriesArg = 0 THEN PHASE_MAX_RETRIES ELSE maxRetriesArg

RECURSIVE Pow2(_)
Pow2(n) == IF n = 0 THEN 1 ELSE 2 * Pow2(n - 1)

\* the metadata the phases of the repository return, and three more an
\* execute() may return: a map with one sub-key for languages, a scalar
\* for media, a map for segments
Metadatas ==
    { Dict(<< >>),
      Dict([k \in {"media"} |->
              Dict([j \in {"duration_sec"} |-> NewScalar])]),
      Dict([k \in {"segments"} |-> NewList]),
      Dict([k \in {"speakers"} |-> NewList]),
      Dict([k \in {"segments", "speakers"} |-> NewList]),
      Dict([k \in {"languages"} |->
              Dict([j \in {"src_lang"} |-> NewScalar])]),
      Dict([k \in {"media"} |-> NewScalar]),
      Dict([k \in {"segments"} |-> Dict([j \in {"count"} |-> NewScalar])]) }

\* dict.update
Update(a, b) ==
    [k \in DOMAIN a \cup DOMAIN b |-> IF k \in DOMAIN b THEN b[k] ELSE a[k]]

\* a merge that replaces every value wholesale
MergeMetadataReplaces(job, metadata) ==
    Dict(Update(job.d, metadata.d))

\* _update_job_metadata: the dict it saves
MergeMetadata(job, metadata) ==
    Dict([k \in DOMAIN job.d \cup DOMAIN metadata.d |->
            IF k \notin DOMAIN metadata.d THEN job.d[k]
            ELSE IF /\ metadata.d[k].t = "dict"
                    /\ k \in DOMAIN job.d
                    /\ job.d[k].t = "dict"
              THEN Dict(Update(job.d[k].d, metadata.d[k].d))
              ELSE metadata.d[k]])

\* run() up to the retry loop: load_job and the precondition check
RunStart ==
    /\ rpc = "start"
    /\ IF ppid \notin DOMAIN PHASE_DEPENDENCIES
         THEN /\ rpc' = "raised"
              /\ UNCHANGED <<attempt, result>>
         ELSE LET v == Validate(PHASE_DEPENDENCIES[ppid], pjob, scratch, env)
              IN  IF ~v.ok
                    THEN /\ rpc' = "returned"
                         /\ result' = Failure(v.kind, v.item)
                         /\ UNCHANGED attempt
                    ELSE /\ rpc' = "attempt"
                         /\ attempt' = 0
                         /\ UNCHANGED result
    /\ UNCHANGED <<ppid, maxRetriesArg, pjob, scratch, env, executeCalls,
                   sleeps, resultMetadata>>
    /\ UNCHANGED notPhaseVars

\* one pass of the retry loop in which execute() returns: the metadata of
\* the result is merged into the job file and the result is returned as
\* it is, whatever its success flag says
RunExecuteReturns ==
    /\ rpc = "attempt"
    /\ executeCalls' = executeCalls + 1
    /\ \E metadata \in Metadatas :
         /\ resultMetadata' = metadata
         /\ pjob' = IF metadata.d = << >> THEN pjob
                                         ELSE MergeMetadata(pjob, metadata)
    /\ \E ok \in BOOLEAN :
         result' = IF ok THEN Success ELSE Failure("result", << >>)
    /\ rpc' = "returned"
    /\ UNCHANGED <<ppid, maxRetriesArg, scratch, env, attempt, sleeps>>
    /\ UNCHANGED notPhaseVars

\* a retry loop that writes the metadata gathered by the attempt that
\* raised into the job file
RunExecuteRaisesPersists ==
    /\ rpc = "attempt"
    /\ executeCalls' = executeCalls + 1
    /\ \E metadata \in Metadatas :
         pjob' = IF metadata.d = << >> THEN pjob
                                       ELSE MergeMetadata(pjob, metadata)
    /\ IF attempt < MaxRetries - 1
         THEN /\ sleeps' = Append(sleeps,
                                  PHASE_RETRY_DELAY_SEC * Pow2(attempt))
              /\ attempt' = attempt + 1
              /\ UNCHANGED <<rpc, result>>
         ELSE /\ result' = Failure("execute", << >>)
              /\ rpc' = "returned"
              /\ UNCHANGED <<attempt, sleeps>>
    /\ UNCHANGED <<ppid, maxRetriesArg, scratch, env, resultMetadata>>
    /\ UNCHANGED notPhaseVars

\* a retry loop whose delay grows by the base delay at each attempt
RunExecuteRaisesLinear ==
    /\ rpc = "attempt"
    /\ executeCalls' = executeCalls + 1
    /\ IF attempt < MaxRetries - 1
         THEN /\ sleeps' = Append(sleeps,
                                  PHASE_RETRY_DELAY_SEC * (attempt + 1))
              /\ attempt' = attempt + 1
              /\ UNCHANGED <<rpc, result>>
         ELSE /\ result' = Failure("execute", << >>)
              /\ rpc' = "returned"
              /\ UNCHANGED <<attempt, sleeps>>
    /\ UNCHANGED <<ppid, maxRetriesArg, pjob, scratch, env, resultMetadata>>
    /\ UNCHANGED notPhaseVars

\* a retry loop that goes round once more than max_retries allows
RunExecuteRaisesOneMore ==
    /\ rpc = "attempt"
    /\ executeCalls' = executeCalls + 1
    /\ IF attempt < MaxRetries
         THEN /\ sleeps' = Append(sleeps,
                                  PHASE_RETRY_DELAY_SEC * Pow2(attempt))
              /\ attempt' = attempt + 1
              /\ UNCHANGED <<rpc, result>>
         ELSE /\ result' = Failure("execute", << >>)
              /\ rpc' = "returned"
              /\ UNCHANGED <<attempt, sleeps>>
    /\ UNCHANGED <<ppid, maxRetriesArg, pjob, scratch, env, resultMetadata>>
    /\ UNCHANGED notPhaseVars

\* one pass of the retry loop in which execute() raises: sleep and go
\* round again, or leave the loop and return the failure
RunExecuteRaises ==
    /\ rpc = "attempt"
    /\ executeCalls' = executeCalls + 1
    /\ IF attempt < MaxRetries - 1
         THEN /\ sleeps' = Append(sleeps,
                                  PHASE_RETRY_DELAY_SEC * Pow2(attempt))
              /\ attempt' = attempt + 1
              /\ UNCHANGED <<rpc, result>>
         ELSE /\ result' = Failure("execute", << >>)
              /\ rpc' = "returned"
              /\ UNCHANGED <<attempt, sleeps>>
    /\ UNCHANGED <<ppid, maxRetriesArg, pjob, scratch, env, resultMetadata>>
    /\ UNCHANGED notPhaseVars

\* the phases whose execute() hands get_timeout() to the subprocess it
\* waits for, and raises PhaseError when the subprocess is timed out
PhasesWithTimeout == {"pre_0", "pre_1", "pre_2"}

\* one pass of the retry loop in which execute() does not come back: the
\* phase runs in the process of the runner and nothing watches the time
RunExecuteHangs ==
    /\ rpc = "attempt"
    /\ ppid \notin PhasesWithTimeout
    /\ executeCalls' = executeCalls + 1
    /\ rpc' = "executing"
    /\ UNCHANGED <<ppid, maxRetriesArg, pjob, scratch, env, attempt, sleeps,
                   result, resultMetadata>>
    /\ UNCHANGED notPhaseVars

----------------------------------------------------------------------------
(* Orchestrator: pipeline/orchestrator.py *)

\* what phase.run() does to its caller: it returns a result that says
\* success, returns one that says failure, or raises
Outcomes == {"success", "failure", "raises"}

\* an orchestrator that goes on after a failure whatever the flag says
OrchRunPhaseNeverStops ==
    /\ opc = "run"
    /\ \E outcome \in Outcomes :
         /\ executed' = Append(executed, [index |-> oi, outcome |-> outcome])
         /\ results' = [n \in DOMAIN results \cup {phases[oi]} |->
                          IF n = phases[oi] THEN outcome = "success"
                                            ELSE results[n]]
         /\ opc' = "loop"
         /\ oi' = oi + 1
    /\ UNCHANGED <<phases, stop_on_error, ojob>>
    /\ UNCHANGED notOrchVars

\* the head of one pass of the loop: update_job_status(PROCESSING, name)
OrchUpdateStatus ==
    /\ opc = "loop"
    /\ oi <= Len(phases)
    /\ ojob' = UpdateJobStatus(ojob, "PROCESSING", phases[oi], NullStr)
    /\ opc' = "run"
    /\ UNCHANGED <<phases, stop_on_error, oi, results, executed>>
    /\ UNCHANGED notOrchVars

\* the try block of one pass: phase.run(), the entry of results, and the
\* break on a failure or an exception when stop_on_error is set
OrchRunPhase ==
    /\ opc = "run"
    /\ \E outcome \in Outcomes :
         /\ executed' = Append(executed, [index |-> oi, outcome |-> outcome])
         /\ results' = [n \in DOMAIN results \cup {phases[oi]} |->
                          IF n = phases[oi] THEN outcome = "success"
                                            ELSE results[n]]
         /\ IF outcome # "success" /\ stop_on_error
              THEN opc' = "returned" /\ oi' = oi
              ELSE opc' = "loop" /\ oi' = oi + 1
    /\ UNCHANGED <<phases, stop_on_error, ojob>>
    /\ UNCHANGED notOrchVars

\* the list is exhausted: return results
OrchReturn ==
    /\ opc = "loop"
    /\ oi > Len(phases)
    /\ opc' = "returned"
    /\ UNCHANGED <<phases, stop_on_error, oi, ojob, results, executed>>
    /\ UNCHANGED notOrchVars

\* no orchestrator is followed
OrchIdle ==
    /\ phases = << >>
    /\ stop_on_error = TRUE
    /\ opc = "idle"
    /\ oi = 1
    /\ ojob = NewJobData
    /\ results = << >>
    /\ executed = << >>

----------------------------------------------------------------------------
(* PIN Store: app/services/pin_manager.py PINManager on Redis *)

\* no key; a key without expiry has expires = NoTime, a hash without the
\* pin field has pin = 0
NoKey == [present |-> FALSE, pin |-> 0, attempts |-> 0, expires |-> NoTime]

\* the key is there and Redis has not expired it
Live(k, t) == k.present /\ (k.expires = NoTime \/ t < k.expires)

\* what Redis holds under the key at time t
Cur(k, t) == IF Live(k, t) THEN k ELSE NoKey

\* HSET key mapping={pin, attempts: 0, created_at}
HsetMapping(k, t, pin) ==
    [present |-> TRUE, pin |-> pin, attempts |-> 0,
     expires |-> Cur(k, t).expires]

\* EXPIRE key seconds
Expire(k, t) ==
    IF Live(k, t) THEN [k EXCEPT !.expires = t + PIN_EXPIRY_HOURS] ELSE NoKey

\* HINCRBY key attempts 1
Hincrby(k, t) ==
    [Cur(k, t) EXCEPT !.present = TRUE, !.attempts = @ + 1]

\* HSET key attempts 0
HsetAttempts(k, t) ==
    [Cur(k, t) EXCEPT !.present = TRUE, !.attempts = 0]

\* the tuples verify_pin returns, with the number of the message
NoTuple == [ok |-> FALSE, msg |-> "none", remaining |-> 0]
Returned(ok, msg, remaining) ==
    [ok |-> ok, msg |-> msg, remaining |-> remaining]

\* generate_pin: the HSET of a fresh pin with attempts 0
GenHset ==
    /\ gpc = "idle"
    /\ \E pin \in PinValues : redis' = HsetMapping(redis, now, pin)
    /\ gpc' = "expire"
    /\ rrun' = 0
    /\ UNCHANGED <<vpc, vcand, vdata, vres, mres, mcand, mrun, pstore,
                   issued>>
    /\ UNCHANGED notPinVars

\* generate_pin: the EXPIRE that follows
GenExpire ==
    /\ gpc = "expire"
    /\ redis' = Expire(redis, now)
    /\ gpc' = "idle"
    /\ UNCHANGED <<vpc, vcand, vdata, vres, rrun, mres, mcand, mrun, pstore,
                   issued>>
    /\ UNCHANGED notPinVars

\* verify_pin: EXISTS, and the return when the key is not there
VExists(c) ==
    /\ vpc[c] = "idle"
    /\ \E candidate \in PinValues :
         vcand' = [vcand EXCEPT ![c] = candidate]
    /\ IF Live(redis, now)
         THEN /\ vpc' = [vpc EXCEPT ![c] = "hgetall"]
              /\ vres' = [vres EXCEPT ![c] = NoTuple]
         ELSE /\ vres' = [vres EXCEPT ![c] = Returned(FALSE, "not found", 0)]
              /\ UNCHANGED vpc
    /\ UNCHANGED <<redis, gpc, vdata, rrun, mres, mcand, mrun, pstore,
                   issued>>
    /\ UNCHANGED notPinVars

\* a verify_pin that lets one more attempt through
VHgetallOneMore(c) ==
    /\ vpc[c] = "hgetall"
    /\ LET data == Cur(redis, now)
       IN  IF data.attempts > MAX_ATTEMPTS
             THEN /\ vres' = [vres EXCEPT ![c] = Returned(FALSE, "locked", 0)]
                  /\ vpc' = [vpc EXCEPT ![c] = "idle"]
                  /\ UNCHANGED vdata
             ELSE /\ vdata' = [vdata EXCEPT ![c] =
                                 [pin |-> data.pin, attempts |-> data.attempts]]
                  /\ vpc' = [vpc EXCEPT ![c] = "hincrby"]
                  /\ UNCHANGED vres
    /\ UNCHANGED <<redis, gpc, vcand, rrun, mres, mcand, mrun, pstore,
                   issued>>
    /\ UNCHANGED notPinVars

\* verify_pin: HGETALL, and the return when attempts has reached 5
VHgetall(c) ==
    /\ vpc[c] = "hgetall"
    /\ LET data == Cur(redis, now)
       IN  IF data.attempts >= MAX_ATTEMPTS
             THEN /\ vres' = [vres EXCEPT ![c] = Returned(FALSE, "locked", 0)]
                  /\ vpc' = [vpc EXCEPT ![c] = "idle"]
                  /\ UNCHANGED vdata
             ELSE /\ vdata' = [vdata EXCEPT ![c] =
                                 [pin |-> data.pin, attempts |-> data.attempts]]
                  /\ vpc' = [vpc EXCEPT ![c] = "hincrby"]
                  /\ UNCHANGED vres
    /\ UNCHANGED <<redis, gpc, vcand, rrun, mres, mcand, mrun, pstore,
                   issued>>
    /\ UNCHANGED notPinVars

\* verify_pin: HINCRBY, the comparison with the pin that was read, and the
\* return on a mismatch with the remaining count
VHincrby(c) ==
    /\ vpc[c] = "hincrby"
    /\ redis' = Hincrby(redis, now)
    /\ IF vdata[c].pin = vcand[c]
         THEN /\ vpc' = [vpc EXCEPT ![c] = "hset"]
              /\ rrun' = IF Live(redis, now) THEN rrun ELSE 0
              /\ UNCHANGED vres
         ELSE /\ vres' = [vres EXCEPT ![c] =
                            Returned(FALSE, "wrong",
                                     MAX_ATTEMPTS - (vdata[c].attempts + 1))]
              /\ vpc' = [vpc EXCEPT ![c] = "idle"]
              /\ rrun' = IF Live(redis, now) THEN rrun + 1 ELSE 1
    /\ vdata' = [vdata EXCEPT ![c] = [pin |-> 0, attempts |-> 0]]
    /\ UNCHANGED <<gpc, vcand, mres, mcand, mrun, pstore,
                   issued>>
    /\ UNCHANGED notPinVars

\* verify_pin: on a match, the HSET of attempts to 0 and the return
VHsetReset(c) ==
    /\ vpc[c] = "hset"
    /\ redis' = HsetAttempts(redis, now)
    /\ vres' = [vres EXCEPT ![c] = Returned(TRUE, "", 0)]
    /\ vpc' = [vpc EXCEPT ![c] = "idle"]
    /\ rrun' = 0
    /\ UNCHANGED <<gpc, vcand, vdata, mres, mcand, mrun, pstore,
                   issued>>
    /\ UNCHANGED notPinVars

\* notification.PINManager.generate_pin in the process h
MemGenerate(h) ==
    /\ \E pin \in PinValues :
         pins' = [pins EXCEPT ![h] =
                    [present |-> TRUE, pin |-> pin, attempts |-> 0,
                     expires |-> now + PIN_EXPIRY_HOURS]]
    /\ issued' = pins'[h]
    /\ mrun' = 0
    /\ UNCHANGED <<redis, gpc, vpc, vcand, vdata, vres, rrun, mres, mcand,
                   pstore>>
    /\ UNCHANGED <<fileVars, saveVars, now, createVars, workerVars, hpc, hjob,
                   hvalid, hnow, resp, delivered>>
    /\ UNCHANGED notLifePinVars

\* notification.PINManager.verify_pin in the process h
MemVerify(h) ==
    /\ \E candidate \in PinValues :
         LET v == VerifyPin(pins[h], candidate, now)
         IN  /\ pins' = [pins EXCEPT ![h] = v.entry]
             /\ mres' = Returned(v.ok, v.msg, v.remaining)
             /\ mcand' = candidate
             /\ mrun' = IF v.msg = "wrong" THEN mrun + 1
                        ELSE IF v.ok THEN 0 ELSE mrun
    /\ UNCHANGED <<redis, gpc, vpc, vcand, vdata, vres, rrun, pstore, issued>>
    /\ UNCHANGED <<fileVars, saveVars, now, createVars, workerVars, hpc, hjob,
                   hvalid, hnow, resp, delivered>>
    /\ UNCHANGED notLifePinVars

\* the server process h is restarted between two requests: the module
\* notification is imported anew and PINManager._pins is {} again
Restart(h) ==
    /\ hpc[h] = "idle"
    /\ spc[h] = "none"
    /\ pins[h].present
    /\ pins' = [pins EXCEPT ![h] = NoPin]
    /\ UNCHANGED <<fileVars, saveVars, now, createVars, workerVars, hpc, hjob,
                   hvalid, hnow, resp, delivered>>
    /\ UNCHANGED notLifeVars

\* no PIN store is followed
PinIdle ==
    /\ redis = NoKey
    /\ gpc = "idle"
    /\ vpc = [c \in Callers |-> "idle"]
    /\ vcand = [c \in Callers |-> 0]
    /\ vdata = [c \in Callers |-> [pin |-> 0, attempts |-> 0]]
    /\ vres = [c \in Callers |-> NoTuple]
    /\ rrun = 0
    /\ mres = NoTuple
    /\ mcand = 0
    /\ mrun = 0
    /\ pstore = "redis"
    /\ issued = NoPin

----------------------------------------------------------------------------
(* Rate Limiter: pipeline/utils/rate_limiter.py, within one UTC minute *)

\* self.rpm_limit
RpmLimit == (GROQ_RATE_LIMIT_RPM * GROQ_RATE_LIMIT_BUFFER_PERCENT) \div 100

\* acquire: redis.get(key) and the branch taken on its answer; at the
\* limit the caller sleeps to the end of the minute
AcquireGet(w) ==
    /\ apc[w] = "idle"
    /\ apc' = [apc EXCEPT ![w] =
                 IF counter = 0 THEN "none"
                 ELSE IF counter < RpmLimit THEN "room"
                 ELSE "idle"]
    /\ UNCHANGED <<counter, acquired>>
    /\ UNCHANGED notRateVars

\* acquire: the pipeline SET key 1, EXPIRE key 120, and return True
AcquireSet(w) ==
    /\ apc[w] = "none"
    /\ counter' = 1
    /\ acquired' = acquired + 1
    /\ apc' = [apc EXCEPT ![w] = "idle"]
    /\ UNCHANGED notRateVars

\* acquire: INCR key, and return True
AcquireIncr(w) ==
    /\ apc[w] = "room"
    /\ counter' = counter + 1
    /\ acquired' = acquired + 1
    /\ apc' = [apc EXCEPT ![w] = "idle"]
    /\ UNCHANGED notRateVars

\* no rate limiter is followed
RateIdle ==
    /\ counter = 0
    /\ apc = [w \in Workers |-> "idle"]
    /\ acquired = 0

----------------------------------------------------------------------------
(* Segment Chunker: pipeline/utils/chunker.py *)

\* the lengths of src_text the segments have; a segment without src_text
\* counts as the empty string
TextLens == {0, 1, 2, CHUNK_CHAR_LIMIT_SRC}

\* char_limit or settings.CHUNK_CHAR_LIMIT_SRC
CharLimit == IF charLimitArg = 0 THEN CHUNK_CHAR_LIMIT_SRC ELSE charLimitArg

\* seg_limit or settings.CHUNK_SEG_LIMIT
SegLimit == IF segLimitArg = 0 THEN CHUNK_SEG_LIMIT ELSE segLimitArg

\* a loop that closes a chunk only when it has more than seg_limit segments
ChunkStepOneMore ==
    /\ kpc = "loop"
    /\ ki <= Len(segments)
    /\ LET seg == segments[ki]
           text_len == seg.text_len
           would_exceed_chars == current_chars + text_len > CharLimit
           would_exceed_segs == Len(current_chunk) > SegLimit
       IN  IF current_chunk # << >>
              /\ (would_exceed_chars \/ would_exceed_segs)
             THEN /\ chunks' = Append(chunks, current_chunk)
                  /\ current_chunk' = << seg >>
                  /\ current_chars' = text_len
             ELSE /\ current_chunk' = Append(current_chunk, seg)
                  /\ current_chars' = current_chars + text_len
                  /\ UNCHANGED chunks
    /\ ki' = ki + 1
    /\ UNCHANGED <<segments, charLimitArg, segLimitArg, kpc>>
    /\ UNCHANGED notChunkVars

\* a loop that closes a chunk one segment before it is full
ChunkStepEarly ==
    /\ kpc = "loop"
    /\ ki <= Len(segments)
    /\ LET seg == segments[ki]
           text_len == seg.text_len
           would_exceed_chars == current_chars + text_len > CharLimit
           would_exceed_segs == Len(current_chunk) + 1 >= SegLimit
       IN  IF current_chunk # << >>
              /\ (would_exceed_chars \/ would_exceed_segs)
             THEN /\ chunks' = Append(chunks, current_chunk)
                  /\ current_chunk' = << seg >>
                  /\ current_chars' = text_len
             ELSE /\ current_chunk' = Append(current_chunk, seg)
                  /\ current_chars' = current_chars + text_len
                  /\ UNCHANGED chunks
    /\ ki' = ki + 1
    /\ UNCHANGED <<segments, charLimitArg, segLimitArg, kpc>>
    /\ UNCHANGED notChunkVars

\* a loop that looks at the length of the chunk before the segment is added
ChunkStepCharsLate ==
    /\ kpc = "loop"
    /\ ki <= Len(segments)
    /\ LET seg == segments[ki]
           text_len == seg.text_len
           would_exceed_chars == current_chars > CharLimit
           would_exceed_segs == Len(current_chunk) >= SegLimit
       IN  IF current_chunk # << >>
              /\ (would_exceed_chars \/ would_exceed_segs)
             THEN /\ chunks' = Append(chunks, current_chunk)
                  /\ current_chunk' = << seg >>
                  /\ current_chars' = text_len
             ELSE /\ current_chunk' = Append(current_chunk, seg)
                  /\ current_chars' = current_chars + text_len
                  /\ UNCHANGED chunks
    /\ ki' = ki + 1
    /\ UNCHANGED <<segments, charLimitArg, segLimitArg, kpc>>
    /\ UNCHANGED notChunkVars

\* one pass of the loop over the segments
ChunkStep ==
    /\ kpc = "loop"
    /\ ki <= Len(segments)
    /\ LET seg == segments[ki]
           text_len == seg.text_len
           would_exceed_chars == current_chars + text_len > CharLimit
           would_exceed_segs == Len(current_chunk) >= SegLimit
       IN  IF current_chunk # << >>
              /\ (would_exceed_chars \/ would_exceed_segs)
             THEN /\ chunks' = Append(chunks, current_chunk)
                  /\ current_chunk' = << seg >>
                  /\ current_chars' = text_len
             ELSE /\ current_chunk' = Append(current_chunk, seg)
                  /\ current_chars' = current_chars + text_len
                  /\ UNCHANGED chunks
    /\ ki' = ki + 1
    /\ UNCHANGED <<segments, charLimitArg, segLimitArg, kpc>>
    /\ UNCHANGED notChunkVars

\* a return that forgets the chunk that is being filled
ChunkReturnDropsLast ==
    /\ kpc = "loop"
    /\ ki > Len(segments)
    /\ kpc' = "returned"
    /\ UNCHANGED <<segments, charLimitArg, segLimitArg, ki, chunks,
                   current_chunk, current_chars>>
    /\ UNCHANGED notChunkVars

\* after the loop: the last chunk, if there is one, and the return
ChunkReturn ==
    /\ kpc = "loop"
    /\ ki > Len(segments)
    /\ chunks' = IF current_chunk # << >> THEN Append(chunks, current_chunk)
                                          ELSE chunks
    /\ kpc' = "returned"
    /\ UNCHANGED <<segments, charLimitArg, segLimitArg, ki, current_chunk,
                   current_chars>>
    /\ UNCHANGED notChunkVars

\* no chunker is followed
ChunkIdle ==
    /\ segments = << >>
    /\ charLimitArg = 0
    /\ segLimitArg = 0
    /\ kpc = "idle"
    /\ ki = 1
    /\ chunks = << >>
    /\ current_chunk = << >>
    /\ current_chars = 0

----------------------------------------------------------------------------
(* Translation phase: pipeline/phases/trans_groq.py under BasePhase.run *)

\* a text of the source language, by its length, and its translation
SrcText(n) == [lang |-> "src", len |-> n]
Translation(text) == [lang |-> "tgt", len |-> text.len]
NoText == [lang |-> "none", len |-> 0]

\* the segment as the transcription phase writes it
NewSegment(n, flagged) ==
    [src_text |-> SrcText(n), tgt_text |-> NoText,
     suspected_hallucination |-> flagged,
     translation |-> [provider |-> "none", retries |-> 0,
                      status |-> "pending"]]

\* a filter that lets the flagged segments through
TranslatableAll(segs, k) == [p \in 1..(Len(segs) - k + 1) |-> p + k - 1]

\* the positions of the segments that are not flagged as hallucinations
RECURSIVE Translatable(_, _)
Translatable(segs, k) ==
    IF k > Len(segs) THEN << >>
    ELSE IF segs[k].suspected_hallucination
         THEN Translatable(segs, k + 1)
         ELSE << k >> \o Translatable(segs, k + 1)

\* SegmentChunker.chunk_segments with the configured limits, on positions
RECURSIVE ChunkPositions(_, _, _, _, _, _)
ChunkPositions(segs, pos, k, done, cur, chars) ==
    IF k > Len(pos)
    THEN IF cur # << >> THEN Append(done, cur) ELSE done
    ELSE LET text_len == segs[pos[k]].src_text.len
             would_exceed_chars == chars + text_len > CHUNK_CHAR_LIMIT_SRC
             would_exceed_segs == Len(cur) >= CHUNK_SEG_LIMIT
         IN  IF cur # << >> /\ (would_exceed_chars \/ would_exceed_segs)
             THEN ChunkPositions(segs, pos, k + 1, Append(done, cur),
                                 << pos[k] >>, text_len)
             ELSE ChunkPositions(segs, pos, k + 1, done,
                                 Append(cur, pos[k]), chars + text_len)

\* the positions of a chunk, as a set
InChunk(chunk) == {chunk[k] : k \in 1..Len(chunk)}

\* the segments after the chunk has been translated
MarkCompleted(segs, chunk) ==
    [p \in 1..Len(segs) |->
        IF p \in InChunk(chunk)
        THEN [segs[p] EXCEPT !.tgt_text = Translation(segs[p].src_text),
                             !.translation.provider = "groq",
                             !.translation.status = "completed"]
        ELSE segs[p]]

\* a failure mark that leaves tgt_text as it was
MarkFailedNoFallback(segs, chunk) ==
    [p \in 1..Len(segs) |->
        IF p \in InChunk(chunk)
        THEN [segs[p] EXCEPT !.translation.status = "failed",
                             !.translation.retries = @ + 1]
        ELSE segs[p]]

\* the segments after translate has raised GroqAPIError for the chunk
MarkFailed(segs, chunk) ==
    [p \in 1..Len(segs) |->
        IF p \in InChunk(chunk)
        THEN [segs[p] EXCEPT !.translation.status = "failed",
                             !.translation.retries = @ + 1,
                             !.tgt_text = segs[p].src_text]
        ELSE segs[p]]

\* a ratio test that also aborts at exactly one half
FailureRateTooHighAtHalf(failed, total) == 2 * failed >= total

\* failed_chunks / total_chunks > 0.5
FailureRateTooHigh(failed, total) == 2 * failed > total

\* run(): one attempt begins; execute() loads the job and chunks the
\* segments that are not flagged, or returns at once when there are none
TransExecute ==
    /\ tpc = "run"
    /\ tsegs' = tjob
    /\ tcalls' = << >>
    /\ failed_chunks' = 0
    /\ ti' = 1
    /\ LET translatable_segments == Translatable(tjob, 1)
       IN  IF translatable_segments = << >>
           THEN /\ tchunks' = << >>
                /\ tresult' = "success"
                /\ tpc' = "done"
           ELSE /\ tchunks' = ChunkPositions(tjob, translatable_segments, 1,
                                             << >>, << >>, 0)
                /\ tpc' = "loop"
                /\ UNCHANGED tresult
    /\ UNCHANGED <<tjob, tattempt>>
    /\ UNCHANGED notTransVars

\* the loop of execute(): translate returns the translations of chunk i
TransChunkOk ==
    /\ tpc = "loop"
    /\ ti <= Len(tchunks)
    /\ tcalls' = Append(tcalls, ti)
    /\ tsegs' = MarkCompleted(tsegs, tchunks[ti])
    /\ ti' = ti + 1
    /\ UNCHANGED <<tjob, tchunks, tpc, tattempt, failed_chunks, tresult>>
    /\ UNCHANGED notTransVars

\* the loop of execute(): translate raises GroqAPIError for chunk i; when
\* too many chunks have failed execute() raises PhaseError, and run()
\* retries or gives up
TransChunkFails ==
    /\ tpc = "loop"
    /\ ti <= Len(tchunks)
    /\ tcalls' = Append(tcalls, ti)
    /\ failed_chunks' = failed_chunks + 1
    /\ tsegs' = MarkFailed(tsegs, tchunks[ti])
    /\ IF FailureRateTooHigh(failed_chunks + 1, Len(tchunks))
       THEN /\ UNCHANGED ti
            /\ IF tattempt < PHASE_MAX_RETRIES - 1
               THEN /\ tattempt' = tattempt + 1
                    /\ tpc' = "run"
                    /\ UNCHANGED tresult
               ELSE /\ tresult' = "failure"
                    /\ tpc' = "done"
                    /\ UNCHANGED tattempt
       ELSE /\ ti' = ti + 1
            /\ UNCHANGED <<tpc, tattempt, tresult>>
    /\ UNCHANGED <<tjob, tchunks>>
    /\ UNCHANGED notTransVars

\* execute() returns the segments as metadata and run() writes them to
\* the job file
TransReturn ==
    /\ tpc = "loop"
    /\ ti > Len(tchunks)
    /\ tjob' = tsegs
    /\ tresult' = "success"
    /\ tpc' = "done"
    /\ UNCHANGED <<tsegs, tchunks, tattempt, ti, failed_chunks, tcalls>>
    /\ UNCHANGED notTransVars

\* no translation phase is followed
TransIdle ==
    /\ tjob = << >>
    /\ tsegs = << >>
    /\ tchunks = << >>
    /\ tpc = "idle"
    /\ tattempt = 0
    /\ ti = 1
    /\ failed_chunks = 0
    /\ tcalls = << >>
    /\ tresult = "none"

----------------------------------------------------------------------------
(* Groq client: pipeline/utils/groq_client.py, translate *)

\* max_retries or settings.GROQ_MAX_RETRIES
GroqMaxRetries == IF gmaxArg = 0 THEN GROQ_MAX_RETRIES ELSE gmaxArg

\* what an attempt can end with, other than the translations:
\*   acquire     the rate limiter is not acquired within its timeout
\*   rate_limit  RateLimitError of the request
\*   connection  APIConnectionError of the request
\*   client      APIError with a status of 400..499
\*   server      any other APIError
\*   generic     any other exception of the request
\*   invalid     a response that cannot be parsed or fails the validation
RequestErrors == {"rate_limit", "connection", "client", "server", "generic",
                  "invalid"}
AttemptErrors == RequestErrors \cup {"acquire"}

\* the time slept before the next attempt
RetryDelay(err, a) ==
    IF err = "rate_limit" THEN RATE_LIMIT_SLEEP_SEC
    ELSE BACKOFF_BASE_SEC * Pow2(a)

\* the cache holds the translations of the texts
GroqCacheHit ==
    /\ qpc = "start"
    /\ qpc' = "returned"
    /\ gerr' = "cached"
    /\ UNCHANGED <<gmaxArg, gattempt, requests, gfailed, gtimeouts, gsleeps>>
    /\ UNCHANGED notGroqVars

\* the cache does not hold them: the retry loop begins
GroqCacheMiss ==
    /\ qpc = "start"
    /\ qpc' = "loop"
    /\ UNCHANGED <<gmaxArg, gattempt, requests, gfailed, gtimeouts, gsleeps,
                   gerr>>
    /\ UNCHANGED notGroqVars

\* the end of an attempt whose error is retried: sleep and go on, or
\* raise GroqAPIError after the last attempt
GroqRetry(err) ==
    IF gattempt < GroqMaxRetries - 1
    THEN /\ gsleeps' = Append(gsleeps, RetryDelay(err, gattempt))
         /\ gattempt' = gattempt + 1
         /\ UNCHANGED qpc
    ELSE /\ qpc' = "raised"
         /\ UNCHANGED <<gsleeps, gattempt>>

\* an attempt that does not get the rate limiter: no request is made, the
\* GroqAPIError is handled as any other exception
GroqAcquireTimeout ==
    /\ qpc = "loop"
    /\ gerr' = "acquire"
    /\ gtimeouts' = gtimeouts + 1
    /\ GroqRetry("acquire")
    /\ UNCHANGED <<gmaxArg, requests, gfailed>>
    /\ UNCHANGED notGroqVars

\* a request whose 4xx is retried like a 5xx
GroqRequestFailsRetriesAll(err) ==
    /\ qpc = "loop"
    /\ requests' = requests + 1
    /\ gerr' = err
    /\ gfailed' = gfailed + 1
    /\ GroqRetry(err)
    /\ UNCHANGED <<gmaxArg, gtimeouts>>
    /\ UNCHANGED notGroqVars

\* an attempt whose request ends in an error
GroqRequestFails(err) ==
    /\ qpc = "loop"
    /\ requests' = requests + 1
    /\ gerr' = err
    /\ IF err = "client"
       THEN /\ qpc' = "raised"
            /\ UNCHANGED <<gsleeps, gattempt, gfailed>>
       ELSE /\ gfailed' = gfailed + 1
            /\ GroqRetry(err)
    /\ UNCHANGED <<gmaxArg, gtimeouts>>
    /\ UNCHANGED notGroqVars

\* an attempt whose request gives valid translations
GroqRequestOk ==
    /\ qpc = "loop"
    /\ requests' = requests + 1
    /\ gerr' = "none"
    /\ qpc' = "returned"
    /\ UNCHANGED <<gmaxArg, gattempt, gfailed, gtimeouts, gsleeps>>
    /\ UNCHANGED notGroqVars

\* no translate call is followed
GroqIdle ==
    /\ gmaxArg = 0
    /\ qpc = "idle"
    /\ gattempt = 0
    /\ requests = 0
    /\ gfailed = 0
    /\ gtimeouts = 0
    /\ gsleeps = << >>
    /\ gerr = "none"

----------------------------------------------------------------------------
(* Submission: app/api/jobs.py, create_job and check_duplicate_submission *)

\* settings.SUPPORTED_LANGUAGES, the keys
SUPPORTED_LANGUAGES ==
    {"ja", "zh", "en", "de", "fr", "it", "es", "pt", "ru", "ko"}

\* the language codes the submissions of the model carry: two supported
\* ones and one that is not
SubmittedLanguages == {"ja", "en", "xx"}

\* the video identifiers extracted from the submitted URLs
VideoIds == {"v1", "v2"}

\* the server processes that handle POST /jobs
Servers == {"s1", "s2"}

\* the hours the clock of the submissions advances by
SubTickHours == DUPLICATE_WINDOW_HOURS \div 2

NoSubmission == [video_id |-> "none", src_lang |-> "none", tgt_lang |-> "none"]
NoResponse == [code |-> 0, status |-> "none", job_id |-> 0,
               video_id |-> "none", at |-> 0]

\* JobSubmission.validate_language, for both fields
ValidateLanguage(src_lang, tgt_lang) ==
    src_lang \in SUPPORTED_LANGUAGES /\ tgt_lang \in SUPPORTED_LANGUAGES

\* check_duplicate_submission: the job files of the video created after
\* the cutoff; the first one the directory scan meets is returned
Duplicates(video_id, t) ==
    {job \in jobsDir :
        /\ job.video_id = video_id
        /\ job.created_at > t - DUPLICATE_WINDOW_HOURS}

\* POST /jobs up to the duplicate check: the request is refused by the
\* validators, answered with the job found, or goes on to create one
SubmitCheck(p, video_id, src_lang, tgt_lang) ==
    /\ subpc[p] = "idle"
    /\ oneLoop => \A q \in Servers : subpc[q] = "idle"
    /\ submitted < MaxSubmissions
    /\ submitted' = submitted + 1
    /\ IF ~ValidateLanguage(src_lang, tgt_lang)
       THEN /\ subresp' = [subresp EXCEPT ![p] =
                   [code |-> 422, status |-> "none", job_id |-> 0,
                    video_id |-> video_id, at |-> subNow]]
            /\ UNCHANGED <<subpc, pending>>
       ELSE IF Duplicates(video_id, subNow) # {}
       THEN /\ \E existing \in Duplicates(video_id, subNow) :
                 subresp' = [subresp EXCEPT ![p] =
                   [code |-> 200, status |-> "ALREADY_QUEUED",
                    job_id |-> existing.job_id, video_id |-> video_id,
                    at |-> subNow]]
            /\ UNCHANGED <<subpc, pending>>
       ELSE /\ subpc' = [subpc EXCEPT ![p] = "checked"]
            /\ pending' = [pending EXCEPT ![p] =
                   [video_id |-> video_id, src_lang |-> src_lang,
                    tgt_lang |-> tgt_lang]]
            /\ UNCHANGED subresp
    /\ UNCHANGED <<jobsDir, enqueued, nextId, subNow, oneLoop>>
    /\ UNCHANGED notSubmitVars

\* a new job_id, job_data and job_path.write_text
SubmitWrite(p) ==
    /\ subpc[p] = "checked"
    /\ jobsDir' = jobsDir \cup
           {[job_id |-> nextId, video_id |-> pending[p].video_id,
             created_at |-> subNow, src_lang |-> pending[p].src_lang,
             tgt_lang |-> pending[p].tgt_lang]}
    /\ nextId' = nextId + 1
    /\ subresp' = [subresp EXCEPT ![p] =
           [code |-> 0, status |-> "none", job_id |-> nextId,
            video_id |-> pending[p].video_id, at |-> subNow]]
    /\ subpc' = [subpc EXCEPT ![p] = "written"]
    /\ UNCHANGED <<pending, enqueued, submitted, subNow, oneLoop>>
    /\ UNCHANGED notSubmitVars

\* enqueue_job(job_id) and the 202 response
SubmitEnqueue(p) ==
    /\ subpc[p] = "written"
    /\ enqueued' = enqueued \cup {subresp[p].job_id}
    /\ subresp' = [subresp EXCEPT ![p].code = 202, ![p].status = "QUEUED"]
    /\ subpc' = [subpc EXCEPT ![p] = "idle"]
    /\ pending' = [pending EXCEPT ![p] = NoSubmission]
    /\ UNCHANGED <<jobsDir, nextId, submitted, subNow, oneLoop>>
    /\ UNCHANGED notSubmitVars

\* time passes
SubmitTick ==
    /\ subNow + SubTickHours <= MaxSubTicks * SubTickHours
    /\ subNow' = subNow + SubTickHours
    /\ UNCHANGED <<jobsDir, subpc, pending, subresp, enqueued, nextId,
                   submitted, oneLoop>>
    /\ UNCHANGED notSubmitVars

\* no submission is followed
SubmitIdle ==
    /\ jobsDir = {}
    /\ subpc = [p \in Servers |-> "off"]
    /\ pending = [p \in Servers |-> NoSubmission]
    /\ subresp = [p \in Servers |-> NoResponse]
    /\ enqueued = {}
    /\ nextId = 1
    /\ submitted = 0
    /\ subNow = 0
    /\ oneLoop = FALSE

----------------------------------------------------------------------------
(* Rate Limiter, one caller: acquire with its wait, over one UTC minute *)

\* min(a, b)
Min(a, b) == IF a <= b THEN a ELSE b

\* the timeouts acquire is called with: a short one, the default of 60.0
\* that the Groq client passes too, and a long one
AcquireTimeouts == {1, 60, 90}

\* acquire is called: start = time.time()
SingleStart(t) ==
    /\ lpc = "idle"
    /\ second < 60
    /\ acquireCalls < RpmLimit + ExtraAcquires
    /\ timeoutArg' = t
    /\ waited' = 0
    /\ acquireCalls' = acquireCalls + 1
    /\ lpc' = "loop"
    /\ UNCHANGED <<minuteCount, second, acquireTrue, acquireRet>>
    /\ UNCHANGED notSingleVars

\* a loop head that lets one request more through
SingleGetOneMore ==
    /\ lpc = "loop"
    /\ IF waited < timeoutArg
       THEN IF second >= 60
            THEN lpc' = "idle" /\ acquireRet' = "true_next_minute"
            ELSE /\ lpc' = IF minuteCount = 0 THEN "none"
                           ELSE IF minuteCount <= RpmLimit THEN "room"
                           ELSE "full"
                 /\ UNCHANGED acquireRet
       ELSE lpc' = "idle" /\ acquireRet' = "false"
    /\ UNCHANGED <<minuteCount, second, waited, timeoutArg, acquireCalls,
                   acquireTrue>>
    /\ UNCHANGED notSingleVars

\* the loop head: return False when the timeout has elapsed, else
\* redis.get(key) and the branch taken on its answer. In the next minute
\* the key is a new one, not set yet: the call sets it and returns True
\* there.
SingleGet ==
    /\ lpc = "loop"
    /\ IF waited < timeoutArg
       THEN IF second >= 60
            THEN lpc' = "idle" /\ acquireRet' = "true_next_minute"
            ELSE /\ lpc' = IF minuteCount = 0 THEN "none"
                           ELSE IF minuteCount < RpmLimit THEN "room"
                           ELSE "full"
                 /\ UNCHANGED acquireRet
       ELSE lpc' = "idle" /\ acquireRet' = "false"
    /\ UNCHANGED <<minuteCount, second, waited, timeoutArg, acquireCalls,
                   acquireTrue>>
    /\ UNCHANGED notSingleVars

\* the pipeline SET key 1, EXPIRE key 120, and return True
SingleSet ==
    /\ lpc = "none"
    /\ minuteCount' = 1
    /\ acquireTrue' = acquireTrue + 1
    /\ acquireRet' = "true"
    /\ lpc' = "idle"
    /\ UNCHANGED <<second, waited, timeoutArg, acquireCalls>>
    /\ UNCHANGED notSingleVars

\* INCR key, and return True
SingleIncr ==
    /\ lpc = "room"
    /\ minuteCount' = minuteCount + 1
    /\ acquireTrue' = acquireTrue + 1
    /\ acquireRet' = "true"
    /\ lpc' = "idle"
    /\ UNCHANGED <<second, waited, timeoutArg, acquireCalls>>
    /\ UNCHANGED notSingleVars

\* at the limit: time.sleep(min(wait_time, timeout - elapsed)) with
\* wait_time = 60 - second, which is never 0
SingleSleep ==
    /\ lpc = "full"
    /\ LET wait_time == 60 - second
           slept == Min(wait_time, timeoutArg - waited)
       IN  /\ second' = second + slept
           /\ waited' = waited + slept
    /\ lpc' = "loop"
    /\ UNCHANGED <<minuteCount, timeoutArg, acquireCalls, acquireTrue,
                   acquireRet>>
    /\ UNCHANGED notSingleVars

\* time passes between two calls
SingleTick ==
    /\ lpc = "idle"
    /\ second < 60
    /\ second' = Min(60, second + TickSeconds)
    /\ UNCHANGED <<minuteCount, waited, timeoutArg, lpc, acquireCalls,
                   acquireTrue, acquireRet>>
    /\ UNCHANGED notSingleVars

\* no single caller is followed
SingleIdle ==
    /\ minuteCount = 0
    /\ second = 0
    /\ waited = 0
    /\ timeoutArg = 0
    /\ lpc = "idle"
    /\ acquireCalls = 0
    /\ acquireTrue = 0
    /\ acquireRet = "none"

----------------------------------------------------------------------------
(* Groq client, step by step: translate with the cache, the parser and    *)
(* the validator                                                          *)

\* an item of the "translations" list of a response: a JSON object that
\* has, or has not, an "id" and a "translation"
Item(has_id, id, has_translation, translation) ==
    [has_id |-> has_id, id |-> id, has_translation |-> has_translation,
     translation |-> translation]

\* the content of a response: text that is not JSON, a JSON object without
\* "translations", or one with the list
Garbage == [kind |-> "garbage", items |-> << >>]
NoTranslations == [kind |-> "no_translations", items |-> << >>]
WithTranslations(items) == [kind |-> "list", items |-> items]

\* x.get("id", 0)
SortKey(item) == IF item.has_id THEN item.id ELSE 0

\* item.get("translation", "")
TranslationOf(item) == IF item.has_translation THEN item.translation ELSE ""

\* list.sort(key=...): the sort is stable
RECURSIVE InsertByKey(_, _)
InsertByKey(sorted, item) ==
    IF sorted = << >> THEN << item >>
    ELSE IF SortKey(sorted[Len(sorted)]) <= SortKey(item)
         THEN Append(sorted, item)
         ELSE Append(InsertByKey(SubSeq(sorted, 1, Len(sorted) - 1), item),
                     sorted[Len(sorted)])

RECURSIVE SortById(_)
SortById(items) ==
    IF items = << >> THEN << >>
    ELSE InsertByKey(SortById(SubSeq(items, 1, Len(items) - 1)),
                     items[Len(items)])

\* _parse_response: GroqAPIError, or the translations in the order of id
ParseError == [ok |-> FALSE, translations |-> << >>]
ParseResponse(content, expected_count) ==
    IF content.kind = "garbage" THEN ParseError
    ELSE IF content.kind = "no_translations" THEN ParseError
    ELSE IF Len(content.items) # expected_count THEN ParseError
    ELSE LET translations_list == SortById(content.items)
         IN  [ok |-> TRUE,
              translations |-> [i \in 1..Len(translations_list) |->
                                   TranslationOf(translations_list[i])]]

\* not trans or not trans.strip()
IsEmpty(trans) == trans = "" \/ trans = " "

\* TranslationValidator.validate: critical_errors
RECURSIVE CriticalErrors(_)
CriticalErrors(list) ==
    IF list = << >> THEN 0
    ELSE (IF IsEmpty(Head(list)) THEN 1 ELSE 0) + CriticalErrors(Tail(list))

\* a validation that lets exactly 10% pass
IsValidAtTenPercent(originals, list) ==
    10 * CriticalErrors(list) <= Len(originals)

\* TranslationValidator.validate: is_valid, critical_errors <
\* len(originals) * 0.1
IsValid(originals, list) ==
    10 * CriticalErrors(list) < Len(originals)

\* the texts of a chunk of n segments
Texts(n) == [i \in 1..n |-> "src"]

\* the values "translation" has in a response
TranslationValues == {"", " ", "a", "b"}

\* every JSON object an item can be, for a short chunk
Items ==
    {Item(has_id, id, has_t, t) :
        has_id \in BOOLEAN, id \in {0, 1},
        has_t \in BOOLEAN, t \in TranslationValues}

\* an object without a field has no value for it
WellFormedItems ==
    {item \in Items :
        /\ ~item.has_id => item.id = 0
        /\ ~item.has_translation => item.translation = ""}

\* the lists of at most n items
RECURSIVE ItemLists(_)
ItemLists(n) ==
    IF n = 0 THEN {<< >>}
    ELSE LET shorter == ItemLists(n - 1)
         IN  shorter \cup {Append(l, item) :
                              l \in {x \in shorter : Len(x) = n - 1},
                              item \in WellFormedItems}

\* the responses to a big chunk: one item per text, each with its id and
\* a translation that is empty or not
BigResponses ==
    {WithTranslations([i \in 1..BigChunk |->
                          Item(TRUE, i - 1, TRUE, f[i])]) :
        f \in [1..BigChunk -> {"", "a"}]}

\* the responses to a short chunk: any list of at most MaxItems items
ShortResponses == {WithTranslations(l) : l \in ItemLists(MaxItems)}

\* the responses the LLM gives to a chunk of n texts
Responses(n) ==
    {Garbage, NoTranslations} \cup
    (IF n <= MaxItems THEN ShortResponses ELSE BigResponses)

\* no validation has run
NoVerdict == [total |-> 0, critical_errors |-> 0, is_valid |-> FALSE]

\* translation_cache.get: None when the cache is off or holds nothing
CacheGet == IF cacheEnabled THEN cacheEntry ELSE << >>

\* the cache gives a list: it is returned at once
TranslateCacheHit ==
    /\ xpc = "start"
    /\ CacheGet # << >>
    /\ steps' = Append(steps, "probe")
    /\ xret' = CacheGet
    /\ xpc' = "returned"
    /\ UNCHANGED <<texts, cacheEnabled, cacheEntry, xmax, xattempt, response,
                   translations>>
    /\ UNCHANGED verdict
    /\ UNCHANGED notStepVars

\* the cache gives nothing: the retry loop begins
TranslateCacheMiss ==
    /\ xpc = "start"
    /\ CacheGet = << >>
    /\ steps' = Append(steps, "probe")
    /\ xpc' = "acquire"
    /\ UNCHANGED <<texts, cacheEnabled, cacheEntry, xmax, xattempt, response,
                   translations, xret>>
    /\ UNCHANGED verdict
    /\ UNCHANGED notStepVars

\* the end of an attempt that failed: the next attempt, or GroqAPIError
\* after a 4xx and after the last attempt; the response and the list of
\* the attempt are not used again
AttemptFails(err) ==
    /\ IF err # "client" /\ xattempt < xmax - 1
       THEN xattempt' = xattempt + 1 /\ xpc' = "acquire"
       ELSE xpc' = "raised" /\ UNCHANGED xattempt
    /\ response' = Garbage
    /\ translations' = << >>

\* groq_rate_limiter.acquire(timeout=60.0) returns True, or False, which
\* raises GroqAPIError into the handler of Exception
TranslateAcquire(ok) ==
    /\ xpc = "acquire"
    /\ steps' = Append(steps, IF ok THEN "acquire" ELSE "acquire_timeout")
    /\ IF ok THEN xpc' = "request" /\ UNCHANGED <<xattempt, response,
                                                   translations>>
       ELSE AttemptFails("acquire")
    /\ UNCHANGED <<texts, cacheEnabled, cacheEntry, xmax, xret>>
    /\ UNCHANGED verdict
    /\ UNCHANGED notStepVars

\* chat.completions.create raises
TranslateRequestFails(err) ==
    /\ xpc = "request"
    /\ steps' = Append(steps, "request")
    /\ AttemptFails(err)
    /\ UNCHANGED <<texts, cacheEnabled, cacheEntry, xmax, xret>>
    /\ UNCHANGED verdict
    /\ UNCHANGED notStepVars

\* chat.completions.create returns a response
TranslateRequestOk ==
    /\ xpc = "request"
    /\ steps' = Append(steps, "request")
    /\ \E content \in Responses(Len(texts)) : response' = content
    /\ xpc' = "parse"
    /\ UNCHANGED <<texts, cacheEnabled, cacheEntry, xmax, xattempt,
                   translations, xret>>
    /\ UNCHANGED verdict
    /\ UNCHANGED notStepVars

\* a translate that stores what it parsed before the validation
TranslateParseStores ==
    /\ xpc = "parse"
    /\ steps' = Append(steps, "parse")
    /\ LET parsed == ParseResponse(response, Len(texts))
       IN  IF parsed.ok
           THEN /\ translations' = parsed.translations
                /\ cacheEntry' = IF cacheEnabled THEN parsed.translations
                                 ELSE cacheEntry
                /\ xpc' = "validate"
                /\ UNCHANGED <<xattempt, response>>
           ELSE /\ AttemptFails("invalid")
                /\ UNCHANGED cacheEntry
    /\ UNCHANGED <<texts, cacheEnabled, xmax, xret>>
    /\ UNCHANGED verdict
    /\ UNCHANGED notStepVars

\* _parse_response(response, len(texts))
TranslateParse ==
    /\ xpc = "parse"
    /\ steps' = Append(steps, "parse")
    /\ LET parsed == ParseResponse(response, Len(texts))
       IN  IF parsed.ok
           THEN /\ translations' = parsed.translations
                /\ xpc' = "validate"
                /\ UNCHANGED <<xattempt, response>>
           ELSE AttemptFails("invalid")
    /\ UNCHANGED <<texts, cacheEnabled, cacheEntry, xmax, xret>>
    /\ UNCHANGED verdict
    /\ UNCHANGED notStepVars

\* TranslationValidator.validate(texts, translations, ...) and the raise
\* of GroqAPIError when it is not valid
TranslateValidate ==
    /\ xpc = "validate"
    /\ steps' = Append(steps, "validate")
    /\ verdict' = [total |-> Len(texts),
                   critical_errors |-> CriticalErrors(translations),
                   is_valid |-> IsValid(texts, translations)]
    /\ IF IsValid(texts, translations)
       THEN xpc' = "store" /\ UNCHANGED <<xattempt, response, translations>>
       ELSE AttemptFails("invalid")
    /\ UNCHANGED <<texts, cacheEnabled, cacheEntry, xmax, xret>>
    /\ UNCHANGED notStepVars

\* translation_cache.set(...), which does nothing when the cache is off,
\* and return translations
TranslateStore ==
    /\ xpc = "store"
    /\ steps' = Append(steps, "store")
    /\ cacheEntry' = IF cacheEnabled THEN translations ELSE cacheEntry
    /\ xret' = translations
    /\ xpc' = "returned"
    /\ UNCHANGED <<texts, cacheEnabled, xmax, xattempt, response,
                   translations>>
    /\ UNCHANGED verdict
    /\ UNCHANGED notStepVars

\* no translate call is followed step by step
StepIdle ==
    /\ texts = << >>
    /\ cacheEnabled = FALSE
    /\ cacheEntry = << >>
    /\ xmax = 0
    /\ xpc = "idle"
    /\ xattempt = 0
    /\ response = Garbage
    /\ translations = << >>
    /\ steps = << >>
    /\ xret = << >>
    /\ verdict = NoVerdict

----------------------------------------------------------------------------
(* TTS phase: pipeline/phases/tts_qwen.py execute, on the job file the    *)
(* translation phase has written                                          *)

\* the positions of the segments whose translation is completed and that
\* are not flagged as hallucinations
RECURSIVE Processable(_, _)
Processable(segs, k) ==
    IF k > Len(segs) THEN << >>
    ELSE IF /\ segs[k].translation.status = "completed"
            /\ ~segs[k].suspected_hallucination
         THEN << k >> \o Processable(segs, k + 1)
         ELSE Processable(segs, k + 1)

\* execute() loads the job of a translation phase that succeeded and
\* picks the segments, or returns at once when there are none
TtsExecute ==
    /\ ypc = "idle"
    /\ tpc = "done"
    /\ tresult = "success"
    /\ processable_segments' = Processable(tjob, 1)
    /\ yi' = 1
    /\ IF Processable(tjob, 1) = << >>
       THEN ypc' = "done" /\ yresult' = "success"
       ELSE ypc' = "loop" /\ UNCHANGED yresult
    /\ UNCHANGED <<synthesized, failed_count>>
    /\ UNCHANGED notTtsVars

\* the loop: synthesize the tgt_text of segment i, which succeeds, or
\* raises QwenTTSError; PhaseError when more than half have failed
TtsSynthesize(ok) ==
    /\ ypc = "loop"
    /\ yi <= Len(processable_segments)
    /\ synthesized' = Append(synthesized, processable_segments[yi])
    /\ IF ok
       THEN /\ yi' = yi + 1
            /\ UNCHANGED <<failed_count, ypc, yresult>>
       ELSE /\ failed_count' = failed_count + 1
            /\ IF 2 * (failed_count + 1) > Len(processable_segments)
               THEN ypc' = "done" /\ yresult' = "failure" /\ UNCHANGED yi
               ELSE yi' = yi + 1 /\ UNCHANGED <<ypc, yresult>>
    /\ UNCHANGED processable_segments
    /\ UNCHANGED notTtsVars

\* execute() returns success
TtsReturn ==
    /\ ypc = "loop"
    /\ yi > Len(processable_segments)
    /\ ypc' = "done"
    /\ yresult' = "success"
    /\ UNCHANGED <<processable_segments, yi, synthesized, failed_count>>
    /\ UNCHANGED notTtsVars

\* no TTS phase is followed
TtsIdle ==
    /\ ypc = "idle"
    /\ processable_segments = << >>
    /\ yi = 1
    /\ synthesized = << >>
    /\ failed_count = 0
    /\ yresult = "none"

----------------------------------------------------------------------------
(* Error translator: pipeline/utils/error_translator.py *)

\* the lengths of the messages of TRANSLATIONS, in the order of the table
TRANSLATIONS == <<37, 22, 22, 39, 35, 36, 35, 19, 43, 41, 51>>

\* a technical error: its length, the number of its characters that the
\* two re.sub calls and strip() remove, and the first pattern of the table
\* it matches, 0 for none
TechnicalError(length, removed, pattern) ==
    [length |-> length, removed |-> removed, pattern |-> pattern]

NoMessage == [kind |-> "none", length |-> 0]

\* a cut to 200 characters without the dots
TruncateNoDots(n) == IF n > 200 THEN 200 ELSE n

\* if len(simplified) > 200: simplified = simplified[:200] + "..."
Truncate(n) == IF n > 200 THEN 200 + Len(<<".", ".", ".">>) ELSE n

\* translate(technical_error)
Translate ==
    /\ epc = "call"
    /\ epc' = "returned"
    /\ message' =
          IF technical_error.pattern # 0
          THEN [kind |-> "translation",
                length |-> TRANSLATIONS[technical_error.pattern]]
          ELSE LET simplified ==
                       technical_error.length - technical_error.removed
               IN  IF Truncate(simplified) = 0
                   THEN [kind |-> "unexpected", length |-> UNEXPECTED_ERROR_LEN]
                   ELSE [kind |-> "simplified",
                         length |-> Truncate(simplified)]
    /\ UNCHANGED technical_error
    /\ UNCHANGED notErrVars

\* no error is translated
ErrIdle ==
    /\ technical_error = TechnicalError(0, 0, 0)
    /\ epc = "idle"
    /\ message = NoMessage

----------------------------------------------------------------------------
(* PIN Store: app/services/pin_manager.py cleanup_expired *)

\* TTL key: -1 for a key without expiry, the time left otherwise (-2 for
\* no key)
Ttl(k, t) ==
    IF ~Live(k, t) THEN -2
    ELSE IF k.expires = NoTime THEN -1
    ELSE k.expires - t

\* a sweep that deletes nothing
SweepDeleteSkips ==
    /\ sweepPc = "delete"
    /\ sweepPc' = "idle"
    /\ UNCHANGED swept
    /\ UNCHANGED pinVars
    /\ UNCHANGED notPinSweepVars

\* cleanup_expired: scan_iter gives the key and TTL is asked for it
SweepTtl ==
    /\ sweepPc = "idle"
    /\ Live(redis, now)
    /\ sweepPc' = IF Ttl(redis, now) = -1 THEN "delete" ELSE "done"
    /\ UNCHANGED swept
    /\ UNCHANGED notSweepVars

\* cleanup_expired: DEL key, after a TTL of -1
SweepDelete ==
    /\ sweepPc = "delete"
    /\ swept' = Cur(redis, now)
    /\ redis' = NoKey
    /\ sweepPc' = "idle"
    /\ UNCHANGED <<gpc, vpc, vcand, vdata, vres, rrun, mres, mcand, mrun,
                   pstore, issued>>
    /\ UNCHANGED notPinSweepVars

\* cleanup_expired returns without a DEL; it may be called again
SweepReturn ==
    /\ sweepPc = "done"
    /\ sweepPc' = "idle"
    /\ UNCHANGED swept
    /\ UNCHANGED notSweepVars

\* no sweep is followed
SweepIdle == sweepPc = "idle" /\ swept = NoKey

----------------------------------------------------------------------------
(* Specifications *)

InitCommon ==
    /\ fd = [p \in Procs |-> "none"]
    /\ buf = [p \in Procs |-> Absent]
    /\ spc = [p \in Procs |-> "none"]
    /\ exc = [p \in Procs |-> FALSE]
    /\ wi = 1
    /\ wexc = NullStr
    /\ hpc = [h \in Handlers |-> "idle"]
    /\ hjob = [h \in Handlers |-> Absent]
    /\ hvalid = [h \in Handlers |-> FALSE]
    /\ hnow = [h \in Handlers |-> 0]
    /\ resp = [h \in Handlers |-> 0]
    /\ delivered = 0

\* no job, no worker and no download handler is followed
LifeIdle ==
    /\ InitCommon
    /\ jobFile = Absent
    /\ tmpFile = Absent
    /\ now = 0
    /\ cpc = "start"
    /\ queued = FALSE
    /\ wpc = "idle"
    /\ phaseLog = << >>
    /\ completedAt = NoTime
    /\ pins = [h \in Handlers |-> NoPin]

\* no phase runner is followed
PhaseIdle ==
    /\ ppid = "pre_0"
    /\ maxRetriesArg = 0
    /\ pjob = Dict(<< >>)
    /\ scratch = {}
    /\ env = {}
    /\ rpc = "idle"
    /\ attempt = 0
    /\ executeCalls = 0
    /\ sleeps = << >>
    /\ result = NoResult
    /\ resultMetadata = Dict(<< >>)

NotLifeIdle == PhaseIdle /\ OrchIdle /\ PinIdle /\ RateIdle /\ ChunkIdle /\ TransIdle /\ GroqIdle /\ SubmitIdle /\ SingleIdle /\ StepIdle /\ TtsIdle /\ ErrIdle /\ SweepIdle
NotPhaseIdle == LifeIdle /\ OrchIdle /\ PinIdle /\ RateIdle /\ ChunkIdle /\ TransIdle /\ GroqIdle /\ SubmitIdle /\ SingleIdle /\ StepIdle /\ TtsIdle /\ ErrIdle /\ SweepIdle
NotOrchIdle == LifeIdle /\ PhaseIdle /\ PinIdle /\ RateIdle /\ ChunkIdle /\ TransIdle /\ GroqIdle /\ SubmitIdle /\ SingleIdle /\ StepIdle /\ TtsIdle /\ ErrIdle /\ SweepIdle
NotPinIdle == LifeIdle /\ PhaseIdle /\ OrchIdle /\ RateIdle /\ ChunkIdle /\ TransIdle /\ GroqIdle /\ SubmitIdle /\ SingleIdle /\ StepIdle /\ TtsIdle /\ ErrIdle /\ SweepIdle
NotRateIdle == LifeIdle /\ PhaseIdle /\ OrchIdle /\ PinIdle /\ ChunkIdle /\ TransIdle /\ GroqIdle /\ SubmitIdle /\ SingleIdle /\ StepIdle /\ TtsIdle /\ ErrIdle /\ SweepIdle
NotChunkIdle == LifeIdle /\ PhaseIdle /\ OrchIdle /\ PinIdle /\ RateIdle /\ TransIdle /\ GroqIdle /\ SubmitIdle /\ SingleIdle /\ StepIdle /\ TtsIdle /\ ErrIdle /\ SweepIdle
NotTransIdle == LifeIdle /\ PhaseIdle /\ OrchIdle /\ PinIdle /\ RateIdle /\ ChunkIdle /\ GroqIdle /\ SubmitIdle /\ SingleIdle /\ StepIdle /\ TtsIdle /\ ErrIdle /\ SweepIdle
NotGroqIdle == LifeIdle /\ PhaseIdle /\ OrchIdle /\ PinIdle /\ RateIdle /\ ChunkIdle /\ TransIdle /\ SubmitIdle /\ SingleIdle /\ StepIdle /\ TtsIdle /\ ErrIdle /\ SweepIdle
NotSubmitIdle == LifeIdle /\ PhaseIdle /\ OrchIdle /\ PinIdle /\ RateIdle /\ ChunkIdle /\ TransIdle /\ GroqIdle /\ SingleIdle /\ StepIdle /\ TtsIdle /\ ErrIdle /\ SweepIdle
NotSingleIdle == LifeIdle /\ PhaseIdle /\ OrchIdle /\ PinIdle /\ RateIdle /\ ChunkIdle /\ TransIdle /\ GroqIdle /\ SubmitIdle /\ StepIdle /\ TtsIdle /\ ErrIdle /\ SweepIdle
NotStepIdle == LifeIdle /\ PhaseIdle /\ OrchIdle /\ PinIdle /\ RateIdle /\ ChunkIdle /\ TransIdle /\ GroqIdle /\ SubmitIdle /\ SingleIdle /\ TtsIdle /\ ErrIdle /\ SweepIdle
NotTtsIdle == LifeIdle /\ PhaseIdle /\ OrchIdle /\ PinIdle /\ RateIdle /\ ChunkIdle /\ TransIdle /\ GroqIdle /\ SubmitIdle /\ SingleIdle /\ StepIdle /\ ErrIdle /\ SweepIdle
NotErrIdle == LifeIdle /\ PhaseIdle /\ OrchIdle /\ PinIdle /\ RateIdle /\ ChunkIdle /\ TransIdle /\ GroqIdle /\ SubmitIdle /\ SingleIdle /\ StepIdle /\ TtsIdle /\ SweepIdle
NotSweepIdle == LifeIdle /\ PhaseIdle /\ OrchIdle /\ PinIdle /\ RateIdle /\ ChunkIdle /\ TransIdle /\ GroqIdle /\ SubmitIdle /\ SingleIdle /\ StepIdle /\ TtsIdle /\ ErrIdle

\* One job from its submission on, one server process
Init ==
    /\ NotLifeIdle
    /\ InitCommon
    /\ jobFile = Absent
    /\ tmpFile = Absent
    /\ now = 0
    /\ cpc = "start"
    /\ queued = FALSE
    /\ wpc = "idle"
    /\ phaseLog = << >>
    /\ completedAt = NoTime
    /\ pins = [h \in Handlers |-> NoPin]

Next ==
    \/ CreateOpen
    \/ CreateWrite
    \/ CreateEnqueue
    \/ CreateCrash
    \/ WorkerDequeue
    \/ WorkerUpdateStatus
    \/ WorkerRunPhase
    \/ WorkerComplete
    \/ WorkerNotifyCompleted
    \/ WorkerOnFailure
    \/ WorkerNotifyFailed
    \/ SaveOpen(Worker)
    \/ SaveWrite(Worker)
    \/ SaveReplace(Worker)
    \/ GeneratePin("h1")
    \/ DownloadGate("h1")
    \/ DownloadRespond("h1")
    \/ SaveOpen("h1")
    \/ SaveWrite("h1")
    \/ SaveReplace("h1")
    \/ Tick

Spec == Init /\ [][Next]_vars

\* A completed job as the worker leaves it, two server processes that each
\* hold a PIN for it
InitGate ==
    /\ NotLifeIdle
    /\ InitCommon
    /\ jobFile = JobRecord("COMPLETED", NullStr, NullStr, 0,
                           DELIVERY_RETENTION_HOURS)
    /\ tmpFile = Absent
    /\ now = 0
    /\ cpc = "done"
    /\ queued = FALSE
    /\ wpc = "done"
    /\ phaseLog = [i \in 1..NumPhases |-> [phase |-> i, ok |-> TRUE]]
    /\ completedAt = 0
    /\ \E pin \in PinValues :
         pins = [h \in Handlers |->
                   [present |-> TRUE, pin |-> pin, attempts |-> 0,
                    expires |-> PIN_EXPIRY_HOURS]]

NextGate ==
    \E h \in Handlers :
        \/ DownloadGate(h)
        \/ DownloadRespond(h)
        \/ SaveOpen(h)
        \/ SaveWrite(h)
        \/ SaveReplace(h)

SpecGate == InitGate /\ [][NextGate]_vars

ScratchFiles == {"original.wav", "normalized.wav", "pre_voice.wav"}
EnvVars == {"HF_TOKEN", "GROQ_API_KEY"}

SubDicts(keys) == {Dict([k \in S |-> Scalar]) : S \in SUBSET keys}

Missing == [t |-> "missing"]

\* the job dicts a run may find: each of the keys the registry names is
\* there or not, at the top level and inside source, media and languages;
\* languages may also be something that is no dict
JobDicts ==
    LET opt(vals) == vals \cup {Missing}
    IN  { Dict([k \in {j \in DOMAIN o : o[j] # Missing} |-> o[k]]) :
            o \in [source : opt(SubDicts({"url"})),
                   media : opt(SubDicts({"duration_sec"})),
                   languages : opt(SubDicts({"src_lang", "tgt_lang"})
                                       \cup {Scalar}),
                   segments : opt({ListVal}),
                   speakers : opt({ListVal})] }

\* One call of run() on any phase id, job dict, scratch directory and
\* environment
InitPhase ==
    /\ NotPhaseIdle
    /\ ppid \in PhaseIDs
    /\ maxRetriesArg \in 0..MaxRetriesArg
    /\ pjob \in JobDicts
    /\ scratch \in SUBSET ScratchFiles
    /\ env \in SUBSET EnvVars
    /\ rpc = "start"
    /\ attempt = 0
    /\ executeCalls = 0
    /\ sleeps = << >>
    /\ result = NoResult
    /\ resultMetadata = Dict(<< >>)

NextPhase ==
    \/ RunStart
    \/ RunExecuteReturns
    \/ RunExecuteRaises

SpecPhase == InitPhase /\ [][NextPhase]_vars

\* One run of a phase whose files and environment are all there, with up
\* to MaxBackoffRetriesArg attempts
InitPhaseBackoff ==
    /\ NotPhaseIdle
    /\ ppid \in PhaseIDs
    /\ maxRetriesArg \in 0..MaxBackoffRetriesArg
    /\ pjob \in JobDicts
    /\ scratch = ScratchFiles
    /\ env = EnvVars
    /\ rpc = "start"
    /\ attempt = 0
    /\ executeCalls = 0
    /\ sleeps = << >>
    /\ result = NoResult
    /\ resultMetadata = Dict(<< >>)

SpecPhaseBackoff == InitPhaseBackoff /\ [][NextPhase]_vars

\* One run of a phase whose files and environment are all there, with an
\* execute() that may also never return; the runner itself always takes
\* its next step
InitPhaseTimeout ==
    /\ InitPhase
    /\ scratch = ScratchFiles
    /\ env = EnvVars

NextPhaseTimeout ==
    \/ RunStart
    \/ RunExecuteReturns
    \/ RunExecuteRaises
    \/ RunExecuteHangs

SpecPhaseTimeout ==
    InitPhaseTimeout /\ [][NextPhaseTimeout]_vars /\ WF_vars(NextPhaseTimeout)

\* the phase lists of up to MaxPhases phases, a phase twice included
PhaseLists ==
    UNION {[1..n -> {PhaseNames[i] : i \in 1..MaxPhases}] : n \in 0..MaxPhases}

\* One call of PipelineOrchestrator.run on a job that was dequeued
InitOrch ==
    /\ NotOrchIdle
    /\ phases \in PhaseLists
    /\ stop_on_error \in BOOLEAN
    /\ opc = "loop"
    /\ oi = 1
    /\ ojob \in {NewJobData,
                  JobRecord("PROCESSING", PhaseNames[NumPhases], NullStr, 0,
                            NoTime)}
    /\ results = << >>
    /\ executed = << >>

NextOrch ==
    \/ OrchUpdateStatus
    \/ OrchRunPhase
    \/ OrchReturn

SpecOrch == InitOrch /\ [][NextOrch]_vars

\* One PIN store, the one on Redis or the map of one server process, with
\* one call of generate_pin or verify_pin at a time
InitPin ==
    /\ NotPinIdle
    /\ redis = NoKey
    /\ gpc = "idle"
    /\ vpc = [c \in Callers |-> "idle"]
    /\ vcand = [c \in Callers |-> 0]
    /\ vdata = [c \in Callers |-> [pin |-> 0, attempts |-> 0]]
    /\ vres = [c \in Callers |-> NoTuple]
    /\ rrun = 0
    /\ mres = NoTuple
    /\ mcand = 0
    /\ mrun = 0
    /\ pstore \in {"redis", "memory"}
    /\ issued = NoPin

NextPin ==
    \/ pstore = "redis" /\ vpc["c1"] = "idle" /\ GenHset
    \/ pstore = "redis" /\ GenExpire
    \/ pstore = "redis" /\ gpc = "idle" /\ VExists("c1")
    \/ pstore = "redis" /\ VHgetall("c1")
    \/ pstore = "redis" /\ VHincrby("c1")
    \/ pstore = "redis" /\ VHsetReset("c1")
    \/ pstore = "memory" /\ MemGenerate("h1")
    \/ pstore = "memory" /\ MemVerify("h1")
    \/ Tick

SpecPin == InitPin /\ [][NextPin]_vars

\* A completed job, its PIN generated while one server process handles a
\* request, the server processes restarting, download requests one at a
\* time
InitDeliver ==
    /\ NotLifeIdle
    /\ InitCommon
    /\ jobFile = JobRecord("COMPLETED", NullStr, NullStr, 0,
                           DELIVERY_RETENTION_HOURS)
    /\ tmpFile = Absent
    /\ now = 0
    /\ cpc = "done"
    /\ queued = FALSE
    /\ wpc = "done"
    /\ phaseLog = [i \in 1..NumPhases |-> [phase |-> i, ok |-> TRUE]]
    /\ completedAt = 0
    /\ pins = [h \in Handlers |-> NoPin]

NextDeliver ==
    \/ ~issued.present /\ MemGenerate("h1")
    \/ \E h \in Handlers :
         \/ Restart(h)
         \/ (\A g \in Handlers : hpc[g] = "idle") /\ DownloadGate(h)
         \/ DownloadRespond(h)
         \/ SaveOpen(h)
         \/ SaveWrite(h)
         \/ SaveReplace(h)
    \/ Tick

SpecDeliver == InitDeliver /\ [][NextDeliver]_vars

\* the segment lists of up to MaxSegs segments
SegmentLists ==
    UNION {{[i \in 1..n |-> [index |-> i, text_len |-> lens[i]]] :
              lens \in [1..n -> TextLens]} : n \in 0..MaxSegs}

\* One call of chunk_segments, with limits that are given or not
InitChunk ==
    /\ NotChunkIdle
    /\ segments \in SegmentLists
    /\ charLimitArg \in 0..MaxCharLimit
    /\ segLimitArg \in 0..MaxSegLimit
    /\ kpc = "loop"
    /\ ki = 1
    /\ chunks = << >>
    /\ current_chunk = << >>
    /\ current_chars = 0

NextChunk ==
    \/ ChunkStep
    \/ ChunkReturn

SpecChunk == InitChunk /\ [][NextChunk]_vars

\* the src_text lengths of test_chunk_by_char_limit
TestTextLens == {800, 1000, 1500}

\* the segment lists made of the texts of test_chunk_by_char_limit
TestCharLists ==
    UNION {{[i \in 1..n |-> [index |-> i, text_len |-> lens[i]]] :
              lens \in [1..n -> TestTextLens]} : n \in 0..MaxTestSegs}

\* the segment lists of test_chunk_by_seg_limit: n times the text "test"
TestCountLists ==
    {[i \in 1..n |-> [index |-> i, text_len |-> 4]] : n \in 0..MaxTestCount}

\* One call of chunk_segments with the arguments of the test suite
InitChunkTests ==
    /\ NotChunkIdle
    /\ \/ /\ segments \in TestCharLists
          /\ charLimitArg = 2000
          /\ segLimitArg = 100
       \/ /\ segments \in TestCountLists
          /\ charLimitArg = 100000
          /\ segLimitArg = 20
    /\ kpc = "loop"
    /\ ki = 1
    /\ chunks = << >>
    /\ current_chunk = << >>
    /\ current_chars = 0

SpecChunkTests == InitChunkTests /\ [][NextChunk]_vars

\* the src_text lengths of the segments of the translation phase: two of
\* the shorter fit in one chunk of the configured size, the longer one
\* fills a chunk
TransLens == {CHUNK_CHAR_LIMIT_SRC \div 2, CHUNK_CHAR_LIMIT_SRC}

\* the segment lists a job has when the translation phase starts
TransSegmentLists ==
    UNION {{[i \in 1..n |-> NewSegment(lens[i], flags[i])] :
              lens \in [1..n -> TransLens], flags \in [1..n -> BOOLEAN]} :
           n \in 1..MaxTransSegs}

\* One run of the translation phase on a job that meets its preconditions
InitTrans ==
    /\ NotTransIdle
    /\ tjob \in TransSegmentLists
    /\ tsegs = << >>
    /\ tchunks = << >>
    /\ tpc = "run"
    /\ tattempt = 0
    /\ ti = 1
    /\ failed_chunks = 0
    /\ tcalls = << >>
    /\ tresult = "none"

NextTrans ==
    \/ TransExecute
    \/ TransChunkOk
    \/ TransChunkFails
    \/ TransReturn

SpecTrans == InitTrans /\ [][NextTrans]_vars

\* One call of translate for the texts of a chunk
InitGroq ==
    /\ NotGroqIdle
    /\ gmaxArg \in 0..MaxGroqRetriesArg
    /\ qpc = "start"
    /\ gattempt = 0
    /\ requests = 0
    /\ gfailed = 0
    /\ gtimeouts = 0
    /\ gsleeps = << >>
    /\ gerr = "none"

NextGroq ==
    \/ GroqCacheHit
    \/ GroqCacheMiss
    \/ GroqAcquireTimeout
    \/ \E err \in RequestErrors : GroqRequestFails(err)
    \/ GroqRequestOk

SpecGroq == InitGroq /\ [][NextGroq]_vars

\* POST /jobs handled by two server processes, or by two handlers of one
\* event loop, from an empty jobs directory
InitSubmit ==
    /\ NotSubmitIdle
    /\ jobsDir = {}
    /\ subpc = [p \in Servers |-> "idle"]
    /\ pending = [p \in Servers |-> NoSubmission]
    /\ subresp = [p \in Servers |-> NoResponse]
    /\ enqueued = {}
    /\ nextId = 1
    /\ submitted = 0
    /\ subNow = 0
    /\ oneLoop \in BOOLEAN

NextSubmit ==
    \/ \E p \in Servers, video_id \in VideoIds,
          src_lang \in SubmittedLanguages, tgt_lang \in SubmittedLanguages :
          SubmitCheck(p, video_id, src_lang, tgt_lang)
    \/ \E p \in Servers : SubmitWrite(p)
    \/ \E p \in Servers : SubmitEnqueue(p)
    \/ SubmitTick

SpecSubmit == InitSubmit /\ [][NextSubmit]_vars

\* one caller of acquire at the start of a minute whose key is not set
InitSingle ==
    /\ NotSingleIdle
    /\ SingleIdle

NextSingle ==
    \/ \E t \in AcquireTimeouts : SingleStart(t)
    \/ SingleGet
    \/ SingleSet
    \/ SingleIncr
    \/ SingleSleep
    \/ SingleTick

SpecSingle == InitSingle /\ [][NextSingle]_vars

\* One call of translate for a chunk of 1..MaxItems texts or of BigChunk
\* texts, with max_retries 1 or 2, the cache off, or on and empty, or on
\* and holding the list an earlier call stored
InitStep ==
    /\ NotStepIdle
    /\ cacheEnabled \in BOOLEAN
    /\ \E n \in (1..MaxItems) \cup {BigChunk} :
          /\ texts = Texts(n)
          /\ cacheEntry \in {<< >>} \cup
                (IF cacheEnabled THEN {[i \in 1..n |-> "a"]} ELSE {})
    /\ xmax \in {1, 2}
    /\ xpc = "start"
    /\ xattempt = 0
    /\ response = Garbage
    /\ translations = << >>
    /\ steps = << >>
    /\ xret = << >>
    /\ verdict = NoVerdict

NextStep ==
    \/ TranslateCacheHit
    \/ TranslateCacheMiss
    \/ \E ok \in BOOLEAN : TranslateAcquire(ok)
    \/ \E err \in RequestErrors \ {"invalid"} : TranslateRequestFails(err)
    \/ TranslateRequestOk
    \/ TranslateParse
    \/ TranslateValidate
    \/ TranslateStore

SpecStep == InitStep /\ [][NextStep]_vars

\* The translation phase, and the TTS phase after it has succeeded
NextTts ==
    \/ NextTrans
    \/ TtsExecute
    \/ \E ok \in BOOLEAN : TtsSynthesize(ok)
    \/ TtsReturn

SpecTts == InitTrans /\ [][NextTts]_vars

\* One call of translate with an error of up to MaxErrorLen characters, of
\* which the simplification removes none, some or all
InitErr ==
    /\ NotErrIdle
    /\ \E length \in 0..MaxErrorLen, pattern \in 0..Len(TRANSLATIONS) :
          \E removed \in {0, 1, 10, length} :
             /\ removed <= length
             /\ technical_error = TechnicalError(length, removed, pattern)
    /\ epc = "call"
    /\ message = NoMessage

NextErr == Translate

SpecErr == InitErr /\ [][NextErr]_vars

\* The workers calling acquire again and again within one UTC minute
InitRate ==
    /\ NotRateIdle
    /\ RateIdle

NextRate ==
    \E w \in Workers :
        \/ AcquireGet(w)
        \/ AcquireSet(w)
        \/ AcquireIncr(w)

SpecRate == InitRate /\ [][NextRate]_vars

\* The Redis PIN store with concurrent callers of verify_pin
InitPinRace ==
    /\ NotPinIdle
    /\ PinIdle

NextPinRace ==
    \/ GenHset
    \/ GenExpire
    \/ \E c \in Callers :
         \/ VExists(c)
         \/ VHgetall(c)
         \/ VHincrby(c)
         \/ VHsetReset(c)
    \/ Tick

SpecPinRace == InitPinRace /\ [][NextPinRace]_vars

\* The Redis PIN store with generate_pin, one caller of verify_pin and
\* cleanup_expired running concurrently
NextPinSweep ==
    \/ GenHset
    \/ GenExpire
    \/ SweepTtl
    \/ SweepDelete
    \/ SweepReturn
    \/ VExists("c1")
    \/ VHgetall("c1")
    \/ VHincrby("c1")
    \/ VHsetReset("c1")
    \/ Tick

SpecPinSweep == InitPinRace /\ [][NextPinSweep]_vars

WorkerNext ==
    \/ WorkerDequeue
    \/ WorkerUpdateStatus
    \/ WorkerRunPhase
    \/ WorkerComplete
    \/ WorkerNotifyCompleted
    \/ WorkerOnFailure
    \/ WorkerNotifyFailed
    \/ SaveOpen(Worker)
    \/ SaveWrite(Worker)
    \/ SaveReplace(Worker)

\* The worker process keeps running: every phase attempt terminates and the
\* task is never left half-way
FairSpec == Spec /\ WF_vars(WorkerNext)

----------------------------------------------------------------------------
(* Properties *)

AllIdle == \A h \in Handlers : hpc[h] = "idle"

RejectCodes == {404, 403, 400, 410, 429}

Accepted(h) == hpc[h] = "saving" \/ resp[h] = 200

GateHolds(h) ==
    /\ hvalid[h]
    /\ IsRecord(hjob[h])
    /\ hjob[h].status = "COMPLETED"
    /\ hnow[h] <= hjob[h].expires_at
    /\ hjob[h].download_count - 1 < MAX_DOWNLOADS

RejectedStep(h) ==
    /\ hpc[h] = "idle"
    /\ hpc'[h] = "idle"
    /\ resp'[h] \in RejectCodes
    /\ <<resp[h], pins[h], hnow[h], hjob[h]>> # <<resp'[h], pins'[h], hnow'[h], hjob'[h]>>

\* C3: a request goes on to the archive only if its PIN verified and the
\* record it loaded was COMPLETED, not past expires_at and below
\* max_downloads; a request rejected with 404, 403, 400, 410 or 429 leaves
\* the job file untouched and never enters save_job.
C3_DeliveryGate ==
    /\ [](\A h \in Handlers : Accepted(h) => GateHolds(h))
    /\ [][\A h \in Handlers :
            RejectedStep(h) => /\ jobFile' = jobFile
                               /\ tmpFile' = tmpFile
                               /\ spc'[h] = "none"]_vars

C3_Witness ==
    /\ resp["h1"] = 200
    /\ delivered = 2
    /\ IsRecord(jobFile)
    /\ jobFile.download_count = 2
    /\ pins["h1"].attempts = 2

AllowedStatusSteps ==
    { <<"QUEUED", "QUEUED">>, <<"QUEUED", "PROCESSING">>,
      <<"PROCESSING", "PROCESSING">>, <<"PROCESSING", "COMPLETED">>,
      <<"PROCESSING", "FAILED">>, <<"COMPLETED", "COMPLETED">>,
      <<"FAILED", "FAILED">> }

\* C4: from one persisted record to the next, status only moves
\* QUEUED -> PROCESSING -> {COMPLETED, FAILED}; COMPLETED and FAILED are
\* final and QUEUED is never returned to.
C4_StatusMonotone ==
    [][(IsRecord(jobFile) /\ IsRecord(jobFile'))
          => <<jobFile.status, jobFile'.status>> \in AllowedStatusSteps]_vars

C4_Witness ==
    /\ IsRecord(jobFile)
    /\ jobFile.status = "COMPLETED"
    /\ jobFile.download_count = 1
    /\ wpc = "done"

\* C5: in every persisted record current_phase is non-null exactly when
\* status = PROCESSING.
C5_PhaseIffProcessing ==
    IsRecord(jobFile) =>
        (jobFile.current_phase # NullStr <=> jobFile.status = "PROCESSING")

AllPhasesOk == [i \in 1..NumPhases |-> [phase |-> i, ok |-> TRUE]]

\* C6: the phases run in the declared order, each one only after its
\* predecessor succeeded, and the record is COMPLETED only after all of them
\* have run and succeeded.
C6_CompletedAfterAllPhases ==
    /\ \A i \in 1..Len(phaseLog) :
          /\ phaseLog[i].phase = i
          /\ i < Len(phaseLog) => phaseLog[i].ok
    /\ (\/ (IsRecord(jobFile) /\ jobFile.status = "COMPLETED")
        \/ (IsRecord(tmpFile) /\ tmpFile.status = "COMPLETED")
        \/ (IsRecord(buf[Worker]) /\ buf[Worker].status = "COMPLETED"))
          => phaseLog = AllPhasesOk

C6_Witness ==
    /\ IsRecord(jobFile)
    /\ jobFile.status = "COMPLETED"
    /\ phaseLog = AllPhasesOk

Terminal == IsRecord(jobFile) /\ jobFile.status \in {"COMPLETED", "FAILED"}

SomePhaseFailed == \E i \in 1..Len(phaseLog) : ~phaseLog[i].ok

\* C7: a dequeued job eventually has status COMPLETED or FAILED; when the
\* task has ended, the status is FAILED exactly when a phase failed or an
\* exception left the task, FAILED comes with a non-null error and COMPLETED
\* with a null one, and the failed phase is the last one that ran.
C7_EndsCompletedOrFailed ==
    /\ (wpc # "idle") ~> Terminal
    /\ [](wpc = "done" =>
            /\ Terminal
            /\ jobFile.status = "FAILED" <=> (SomePhaseFailed \/ wexc # NullStr)
            /\ jobFile.status = "FAILED" <=> jobFile.error # NullStr
            /\ \A i \in 1..Len(phaseLog) :
                  ~phaseLog[i].ok => i = Len(phaseLog))

C7_Witness ==
    /\ wpc = "done"
    /\ IsRecord(jobFile)
    /\ jobFile.status = "FAILED"
    /\ jobFile.error # NullStr
    /\ Len(phaseLog) = 3

\* C8: in every persisted record expires_at is non-null exactly when
\* status = COMPLETED, and then it is the completion time plus the delivery
\* retention.
C8_ExpiresIffCompleted ==
    IsRecord(jobFile) =>
        /\ jobFile.expires_at # NoTime <=> jobFile.status = "COMPLETED"
        /\ jobFile.expires_at # NoTime =>
              jobFile.expires_at = completedAt + DELIVERY_RETENTION_HOURS

C8_Witness ==
    /\ IsRecord(jobFile)
    /\ jobFile.status = "COMPLETED"
    /\ completedAt = DELIVERY_RETENTION_HOURS
    /\ jobFile.expires_at = 2 * DELIVERY_RETENTION_HOURS
    /\ jobFile.download_count = 1

\* C9: the file at the job's path is at every instant either absent or one
\* complete record.
C9_FileAbsentOrComplete ==
    jobFile = Absent \/ IsRecord(jobFile)

----------------------------------------------------------------------------
(* Precondition fast-fail *)

\* the declared dependencies of a phase, each with its kind
Declared(dep) ==
    {[kind |-> "file", item |-> << dep.required_files[i] >>] :
        i \in 1..Len(dep.required_files)}
    \cup {[kind |-> "field", item |-> dep.required_job_fields[i]] :
            i \in 1..Len(dep.required_job_fields)}
    \cup {[kind |-> "env", item |-> << dep.required_env_vars[i] >>] :
            i \in 1..Len(dep.required_env_vars)}

\* a field path of one or two keys is there
FieldPresent(path) ==
    /\ path[1] \in DOMAIN pjob.d
    /\ Len(path) = 2 =>
         /\ pjob.d[path[1]].t = "dict"
         /\ path[2] \in DOMAIN pjob.d[path[1]].d

\* the declared dependencies of the phase that are missing
MissingDeps ==
    IF ppid \notin DOMAIN PHASE_DEPENDENCIES THEN {}
    ELSE {x \in Declared(PHASE_DEPENDENCIES[ppid]) :
            \/ x.kind = "file" /\ x.item[1] \notin scratch
            \/ x.kind = "field" /\ ~FieldPresent(x.item)
            \/ x.kind = "env" /\ x.item[1] \notin env}

\* C10: for every phase id of the registry, when run() starts with a
\* declared dependency (scratch file, job field path or environment key)
\* missing, its precondition check makes it return a failure result that
\* names a missing item, the one missing item when there is a single one,
\* with execute() called zero times; and a run that has returned calls
\* execute() no more.
C10_PreconditionFastFail ==
    [][/\ (rpc = "start" /\ MissingDeps # {}) =>
            /\ rpc' = "returned"
            /\ result'.success = FALSE
            /\ executeCalls' = 0
            /\ [kind |-> result'.error, item |-> result'.item] \in MissingDeps
       /\ rpc = "returned" => executeCalls' = executeCalls]_vars

\* the tts phase run with every dependency there but pre_voice.wav: the
\* failure names the file and execute() was never called
C10_Witness ==
    /\ ppid = "tts"
    /\ MissingDeps = {[kind |-> "file", item |-> << "pre_voice.wav" >>]}
    /\ rpc = "returned"
    /\ result = Failure("file", << "pre_voice.wav" >>)
    /\ executeCalls = 0

----------------------------------------------------------------------------
(* Retry discipline *)

----------------------------------------------------------------------------
(* Metadata merge *)

\* execute() has returned a successful result in this step
PhaseSucceeds ==
    rpc = "attempt" /\ rpc' = "returned" /\ result' = Success

\* the value of one key after a one-level merge of the value new into old
MergedValue(old, new, after) ==
    IF old.t = "dict" /\ new.t = "dict"
      THEN /\ after.t = "dict"
           /\ DOMAIN after.d = DOMAIN old.d \cup DOMAIN new.d
           /\ \A j \in DOMAIN new.d : after.d[j] = new.d[j]
           /\ \A j \in DOMAIN old.d \ DOMAIN new.d : after.d[j] = old.d[j]
      ELSE after = new

\* C12: after a successful phase the job record is the prior record with
\* every key of the result's metadata merged one level deep: two maps are
\* merged sub-key by sub-key, the metadata winning on common sub-keys; in
\* every other case the metadata value replaces the record's value; keys
\* absent from the metadata are unchanged.
C12_MetadataMerge ==
    [][PhaseSucceeds =>
         LET md == resultMetadata'.d
         IN  /\ DOMAIN pjob'.d = DOMAIN pjob.d \cup DOMAIN md
             /\ \A k \in DOMAIN pjob.d \ DOMAIN md : pjob'.d[k] = pjob.d[k]
             /\ \A k \in DOMAIN md \ DOMAIN pjob.d : pjob'.d[k] = md[k]
             /\ \A k \in DOMAIN md \cap DOMAIN pjob.d :
                  MergedValue(pjob.d[k], md[k], pjob'.d[k])]_vars

\* a successful phase returned a new src_lang inside languages: the record
\* has the new src_lang and has kept its tgt_lang
C12_Witness ==
    /\ rpc = "returned"
    /\ result = Success
    /\ resultMetadata =
         Dict([k \in {"languages"} |->
                 Dict([j \in {"src_lang"} |-> NewScalar])])
    /\ "languages" \in DOMAIN pjob.d
    /\ pjob.d["languages"] =
         Dict([j \in {"src_lang", "tgt_lang"} |->
                 IF j = "src_lang" THEN NewScalar ELSE Scalar])

----------------------------------------------------------------------------
(* Orchestrator order *)

----------------------------------------------------------------------------
(* PIN lockout *)

\* the entry of the map is there and has not expired
MemLive(entry, t) == entry.present /\ t <= entry.expires

\* C14 on the Redis store: after five wrong verify calls in a row the hash
\* has attempts >= 5 for as long as it lives and is not written by
\* generate_pin; a verify that reads attempts >= 5 returns "locked"
\* whatever its candidate and leaves the hash as it is; the k-th wrong
\* call in a row reports 5 - k remaining.
C14_RedisLockout ==
    [][/\ (rrun' >= MAX_ATTEMPTS /\ Live(redis', now')) =>
            redis'.attempts >= MAX_ATTEMPTS
       /\ \A c \in Callers :
            /\ (vpc[c] = "hgetall" /\ vpc'[c] # "hgetall"
                /\ Cur(redis, now).attempts >= MAX_ATTEMPTS) =>
                  /\ vres'[c] = Returned(FALSE, "locked", 0)
                  /\ redis' = redis
            /\ (vpc[c] = "hincrby" /\ vres'[c].msg = "wrong"
                /\ Live(redis, now)) =>
                  /\ rrun' <= MAX_ATTEMPTS
                  /\ vres'[c].remaining = MAX_ATTEMPTS - rrun']_vars

\* C14 on the map of a server process: the same, the count of attempts
\* being at least the number of wrong calls in a row.
C14_MemLockout ==
    [][\A h \in Handlers :
         /\ mrun' <= pins'[h].attempts \/ ~pins'[h].present
         /\ (MemVerify(h) /\ MemLive(pins[h], now)
             /\ pins[h].attempts >= MAX_ATTEMPTS) =>
               /\ mres' = Returned(FALSE, "locked", 0)
               /\ pins' = pins
         /\ (MemVerify(h) /\ mres'.msg = "wrong") =>
               /\ mres'.remaining = MAX_ATTEMPTS - pins'[h].attempts
               /\ mres'.remaining <= MAX_ATTEMPTS - mrun']_vars

C14_MemWitness ==
    /\ pstore = "memory"
    /\ mrun = MAX_ATTEMPTS
    /\ MemLive(pins["h1"], now)
    /\ mcand = pins["h1"].pin
    /\ mres = Returned(FALSE, "locked", 0)

----------------------------------------------------------------------------
(* PIN attempts reset *)

\* the request of handler h got past verify_pin in this step: it went on
\* to save the count or was rejected by one of the later checks
VerifiedStep(h) ==
    /\ DownloadGate(h)
    /\ \/ hpc'[h] = "saving"
       \/ resp'[h] \in {400, 410, 429, 500}

\* C15: a successful verify through the Delivery Gate leaves the attempts
\* counter of the PIN entry at zero, so that requests with the correct PIN
\* never use up the attempt budget.
C15_SuccessResetsAttempts ==
    [][\A h \in Handlers : VerifiedStep(h) => pins'[h].attempts = 0]_vars

\* three downloads with the correct PIN and two wrong requests have used up
\* the budget: the entry is locked for the correct PIN
C15_LockedByCorrectPins ==
    ~(/\ delivered = 3
      /\ pins["h1"].attempts = MAX_ATTEMPTS
      /\ jobFile.kind = "record"
      /\ jobFile.download_count = 3)

----------------------------------------------------------------------------
(* PIN store under concurrent callers *)

\* C16: under any interleaving of concurrent verify calls the attempts
\* counter of the hash never exceeds max_attempts, and no more than
\* max_attempts wrong candidates are compared with the stored PIN without
\* a successful verify or a generate in between.
C16_AttemptsBounded ==
    /\ redis.attempts <= MAX_ATTEMPTS
    /\ rrun <= MAX_ATTEMPTS

----------------------------------------------------------------------------
(* PIN across restarts and processes *)

\* C17: as long as the PIN generated for the job has not expired, a
\* request that presents it to the Delivery Gate in any server process is
\* not turned away by verify_pin, unless wrong candidates have locked the
\* entry; whichever process generated the PIN and whichever has restarted
\* since.
C17_PinSurvivesRestart ==
    \A h \in Handlers :
        (/\ issued.present
         /\ now <= issued.expires
         /\ hpc[h] = "idle"
         /\ pins[h].attempts < MAX_ATTEMPTS) =>
            VerifyPin(pins[h], issued.pin, now).ok

----------------------------------------------------------------------------
(* Rate limiter bound *)

\* C18: with N workers calling acquire concurrently and the effective
\* limit L, no more than L + N acquire calls return True within one UTC
\* minute, under every interleaving of the workers' read, initialize and
\* increment steps.
C18_AcquiresBounded == acquired <= RpmLimit + NumWorkers

----------------------------------------------------------------------------
(* Chunking law *)

\* the concatenation of a list of chunks
RECURSIVE Concat(_)
Concat(cs) == IF cs = << >> THEN << >> ELSE Head(cs) \o Concat(Tail(cs))

\* the total src_text length of a chunk
RECURSIVE TotalChars(_)
TotalChars(chunk) ==
    IF chunk = << >> THEN 0
    ELSE Head(chunk).text_len + TotalChars(Tail(chunk))

\* C19: for every segment list and every pair of limits, the chunks
\* returned, concatenated in order, are exactly the input list, no segment
\* dropped, duplicated or moved, and no chunk is empty.
C19_ChunksConcatToInput ==
    kpc = "returned" =>
        /\ Concat(chunks) = segments
        /\ \A c \in 1..Len(chunks) : chunks[c] # << >>

\* three segments returned as two chunks
C19_Witness ==
    /\ kpc = "returned"
    /\ Len(segments) = 3
    /\ Len(chunks) = 2
    /\ Len(chunks[1]) = 2

\* C20: every chunk returned has at most seg_limit segments and a total
\* src_text length of at most char_limit, except that a chunk of a single
\* segment may be longer than char_limit; a limit that is not given is
\* the configured one.
C20_ChunksWithinLimits ==
    kpc = "returned" =>
        \A c \in 1..Len(chunks) :
            /\ Len(chunks[c]) <= SegLimit
            /\ TotalChars(chunks[c]) <= CharLimit \/ Len(chunks[c]) = 1

\* one chunk is a single segment longer than char_limit, another is full
\* with seg_limit = 2 segments
C20_Witness ==
    /\ kpc = "returned"
    /\ SegLimit = 2
    /\ \E c \in 1..Len(chunks) :
         Len(chunks[c]) = 1 /\ TotalChars(chunks[c]) > CharLimit
    /\ \E c \in 1..Len(chunks) :
         Len(chunks[c]) = 2 /\ TotalChars(chunks[c]) = CharLimit

\* the src_text lengths of a segment list, in order
TextLensOf(segs) == [i \in 1..Len(segs) |-> segs[i].text_len]

\* chunk_segments has returned for the call of test_chunk_by_char_limit
C21_TestCase ==
    /\ kpc = "returned"
    /\ TextLensOf(segments) = <<1000, 1500, 800>>
    /\ CharLimit = 2000
    /\ SegLimit = 100

ChunkSizes == [c \in 1..Len(chunks) |-> Len(chunks[c])]

\* C22: chunking is greedy. Every chunk other than the last is maximal:
\* the first segment of the next chunk could not have been added to it
\* without exceeding char_limit or seg_limit. When the char limit never
\* binds (the whole input fits in char_limit), n segments give chunks of
\* exactly seg_limit segments followed by one chunk with the remainder.
C22_Greedy ==
    kpc = "returned" =>
        /\ \A c \in 1..(Len(chunks) - 1) :
             \/ TotalChars(chunks[c]) + chunks[c + 1][1].text_len > CharLimit
             \/ Len(chunks[c]) + 1 > SegLimit
        /\ TotalChars(segments) <= CharLimit =>
             /\ Len(chunks) = (Len(segments) + SegLimit - 1) \div SegLimit
             /\ \A c \in 1..(Len(chunks) - 1) : Len(chunks[c]) = SegLimit
             /\ chunks # << >> =>
                  Len(chunks[Len(chunks)]) =
                      Len(segments) - (Len(chunks) - 1) * SegLimit

\* test_chunk_by_seg_limit: 50 segments with seg_limit 20 have come back
\* as chunks of 20, 20 and 10 segments
C22_Witness ==
    /\ kpc = "returned"
    /\ Len(segments) = 50
    /\ SegLimit = 20
    /\ TotalChars(segments) <= CharLimit
    /\ ChunkSizes = <<20, 20, 10>>

\* a chunk closed by the char limit alone: it has room for more segments
\* but not for the text of the next one
C22_WitnessChars ==
    /\ kpc = "returned"
    /\ \E c \in 1..(Len(chunks) - 1) :
         /\ Len(chunks[c]) + 1 <= SegLimit
         /\ Len(chunks[c]) >= 2
         /\ TotalChars(chunks[c]) + chunks[c + 1][1].text_len > CharLimit

\* the step in which translate fails for the chunk of this pass
ChunkFailsStep == tpc = "loop" /\ failed_chunks' = failed_chunks + 1

\* C23: when the translate call of a chunk fails after exhausting its
\* retries, every segment of that chunk gets translation.status = failed
\* and tgt_text = src_text and the segments of the other chunks are left
\* as they were; the phase then goes on with the next chunk, in order,
\* unless more than half of the chunks have failed by then (the global
\* abort of the phase). Chunks are translated in order, none twice.
C23_FailedChunkMarked ==
    [][/\ ChunkFailsStep =>
            /\ \A p \in 1..Len(tsegs) :
                 IF p \in InChunk(tchunks[ti])
                 THEN /\ tsegs'[p].translation.status = "failed"
                      /\ tsegs'[p].tgt_text = tsegs[p].src_text
                      /\ tsegs'[p].src_text = tsegs[p].src_text
                 ELSE tsegs'[p] = tsegs[p]
            /\ Len(tsegs') = Len(tsegs)
            /\ ~FailureRateTooHigh(failed_chunks', Len(tchunks)) =>
                 tpc' = "loop" /\ ti' = ti + 1 /\ tchunks' = tchunks
       /\ \A k \in 1..Len(tcalls') : tcalls'[k] = k
      ]_vars

\* chunk 2 of three has failed, its segments carry the source text, and
\* chunk 3 has been translated after it
C23_Witness ==
    /\ Len(tchunks) = 3
    /\ tcalls = <<1, 2, 3>>
    /\ failed_chunks = 1
    /\ \A p \in InChunk(tchunks[2]) :
         /\ tsegs[p].translation.status = "failed"
         /\ tsegs[p].tgt_text = tsegs[p].src_text
    /\ \A p \in InChunk(tchunks[1]) \cup InChunk(tchunks[3]) :
         /\ tsegs[p].translation.status = "completed"
         /\ tsegs[p].tgt_text = Translation(tsegs[p].src_text)

\* the chunks whose segments the job file records as failed
FailedChunksOnFile ==
    {c \in 1..Len(tchunks) :
        \A p \in InChunk(tchunks[c]) :
            /\ tjob[p].translation.status = "failed"
            /\ tjob[p].tgt_text = tjob[p].src_text}

\* C24: the translation phase returns failure if and only if, in the
\* attempt that decides, the number of failed chunks divided by the total
\* number of chunks exceeds 0.5; with a ratio of 0.5 or less it returns
\* success and the job file holds the segments of that attempt, the
\* failed ones included. The loop never goes on past a ratio above 0.5.
C24_FailureIffOverHalf ==
    /\ tpc = "loop" => 2 * failed_chunks <= Len(tchunks)
    /\ tpc = "done" =>
         /\ tresult = "failure" <=> 2 * failed_chunks > Len(tchunks)
         /\ tresult = "success" <=> 2 * failed_chunks <= Len(tchunks)
         /\ tresult = "success" =>
              /\ tjob = tsegs
              /\ Cardinality(FailedChunksOnFile) = failed_chunks

\* success with one failed chunk of two, the ratio being exactly 0.5: the
\* failed segments are in the job file
C24_Witness ==
    /\ tpc = "done"
    /\ tresult = "success"
    /\ Len(tchunks) = 2
    /\ failed_chunks = 1
    /\ Cardinality(FailedChunksOnFile) = 1

\* success with one failed chunk of three
C24_WitnessOneOfThree ==
    /\ tpc = "done"
    /\ tresult = "success"
    /\ Len(tchunks) = 3
    /\ failed_chunks = 1
    /\ tjob = tsegs

\* failure after the last attempt, two chunks of three having failed
C24_WitnessFailure ==
    /\ tpc = "done"
    /\ tresult = "failure"
    /\ tattempt = PHASE_MAX_RETRIES - 1
    /\ Len(tchunks) = 3
    /\ failed_chunks = 2

\* C25: for one chunk, translate issues at most max_retries LLM requests;
\* a 4xx client error ends the call with failure right after that
\* request, with no further request; and when the call returns the
\* translations after k < max_retries requests that failed with an error
\* that is retried (rate limit, connection, 5xx, generic), it has issued
\* exactly k + 1 requests, one per attempt unless an attempt made none
\* because the rate limiter was not acquired.
C25_RequestsBounded ==
    [][/\ requests' <= GroqMaxRetries
       /\ requests' <= gattempt' + 1
       /\ gerr = "client" /\ requests > 0 =>
            qpc = "raised" /\ requests' = requests
       /\ qpc' = "returned" /\ gerr' # "cached" =>
            /\ gfailed' < GroqMaxRetries
            /\ requests' = gfailed' + 1
            /\ gattempt' + 1 = requests' + gtimeouts'
      ]_vars

\* the call of test_translate_retry: max_retries = 3, one generic failure,
\* then the translations after two requests
C25_Witness ==
    /\ gmaxArg = 3
    /\ qpc = "returned"
    /\ gfailed = 1
    /\ gtimeouts = 0
    /\ requests = 2
    /\ gsleeps = <<BACKOFF_BASE_SEC>>

\* a 4xx at the second request has ended the call
C25_WitnessClient ==
    /\ qpc = "raised"
    /\ gerr = "client"
    /\ requests = 2
    /\ GroqMaxRetries > 2

\* all of the configured five requests have failed
C25_WitnessExhausted ==
    /\ gmaxArg = 0
    /\ qpc = "raised"
    /\ requests = GROQ_MAX_RETRIES

\* two job files of one video whose creation times are less than 24 hours
\* apart
TwinRecords ==
    {pair \in jobsDir \X jobsDir :
        /\ pair[1] # pair[2]
        /\ pair[1].video_id = pair[2].video_id
        /\ pair[1].created_at < pair[2].created_at + DUPLICATE_WINDOW_HOURS
        /\ pair[2].created_at < pair[1].created_at + DUPLICATE_WINDOW_HOURS}

\* C26: for any sequence of submissions of the same video identifier
\* within 24 hours, concurrent ones included, exactly one job record is
\* created and enqueued; every other submission gets the job_id of the
\* existing record with status ALREADY_QUEUED and creates and enqueues
\* nothing.
C26_OneRecordPerVideo ==
    /\ TwinRecords = {}
    /\ \A p \in Servers :
         subresp[p].status = "ALREADY_QUEUED" =>
            \E job \in jobsDir :
               /\ job.job_id = subresp[p].job_id
               /\ job.video_id = subresp[p].video_id
               /\ job.created_at > subresp[p].at - DUPLICATE_WINDOW_HOURS

\* the handlers of one event loop, which run one after the other, create
\* one record per video and 24 hours, and enqueue it
C26_OneLoopOneRecord ==
    oneLoop =>
        /\ C26_OneRecordPerVideo
        /\ (\A p \in Servers : subpc[p] = "idle") =>
               enqueued = {job.job_id : job \in jobsDir}

\* a second submission of the video, in the same hour, is answered with
\* the first job
C26_WitnessAlreadyQueued ==
    /\ oneLoop
    /\ Cardinality(jobsDir) = 1
    /\ \E p \in Servers :
         /\ subresp[p].status = "ALREADY_QUEUED"
         /\ subresp[p].job_id \in enqueued

\* C27: every job record ever created has languages.src_lang different
\* from languages.tgt_lang, both in the supported set of ten; a submission
\* whose src_lang equals its tgt_lang is rejected and creates no record.
C27_LanguagesDiffer ==
    \A job \in jobsDir :
        /\ job.src_lang # job.tgt_lang
        /\ job.src_lang \in SUPPORTED_LANGUAGES
        /\ job.tgt_lang \in SUPPORTED_LANGUAGES

\* the part of C27 that the validators of JobSubmission do enforce: both
\* languages of every record are supported ones, and a submission with an
\* unsupported language is answered 422 without a record
C27_LanguagesSupported ==
    /\ \A job \in jobsDir :
         /\ job.src_lang \in SUPPORTED_LANGUAGES
         /\ job.tgt_lang \in SUPPORTED_LANGUAGES
    /\ \A p \in Servers :
         subresp[p].code = 422 => subresp[p].job_id = 0

\* a submission with an unsupported language has been refused
C27_WitnessRefused ==
    \E p \in Servers : subresp[p].code = 422 /\ jobsDir = {}

\* C28: an execute() that runs longer than the timeout of the phase is
\* ended by the runner as a failed attempt, and the runner moves on to the
\* next retry: run() eventually returns (or raises) even when execute()
\* never returns on its own.
C28_RunReturns == <>(rpc \in {"returned", "raised"})

\* the runs of the phases that pass their timeout to a subprocess do end
C28_TimedPhasesReturn ==
    ppid \in PhasesWithTimeout => <>(rpc \in {"returned", "raised"})

\* execute() has been entered and is not coming back
C28_WitnessHung ==
    /\ rpc = "executing"
    /\ ppid = "pre_3"
    /\ attempt = 0

\* the results run() builds itself: a failed precondition, or the failure
\* after the last attempt
RunnerFailures == {"file", "field", "env", "execute"}

\* C29: when run() returns a failure result, from a failed precondition
\* or from exhausted retries, the job record on file is exactly what it
\* was before run() was called: no step of such a run writes the record.
\* The record is written only in the step in which execute() has returned
\* its own result.
C29_FailureLeavesRecord ==
    [][/\ pjob' # pjob =>
            /\ rpc = "attempt"
            /\ rpc' = "returned"
            /\ result'.error \notin RunnerFailures
       /\ (rpc' = "returned" /\ result'.error \in RunnerFailures) =>
            /\ ~result'.success
            /\ pjob' = pjob
            /\ resultMetadata' = Dict(<< >>)
      ]_vars

\* run() has returned the failure after three attempts that raised
C29_Witness ==
    /\ rpc = "returned"
    /\ ~result.success
    /\ result.error = "execute"
    /\ executeCalls = PHASE_MAX_RETRIES
    /\ resultMetadata = Dict(<< >>)

\* run() has returned the failure of a precondition
C29_WitnessPrecondition ==
    /\ rpc = "returned"
    /\ ~result.success
    /\ result.error = "field"
    /\ executeCalls = 0

\* C30: after failed attempt number a, counting from 0, the runner sleeps
\* exactly base_delay * 2^a before the next attempt (5, 10, 20, ... seconds
\* for the base of 5), once per failed attempt that is followed by
\* another, and it does not sleep after the last failed attempt.
C30_Backoff ==
    /\ \A a \in 1..Len(sleeps) : sleeps[a] = PHASE_RETRY_DELAY_SEC * 2^(a - 1)
    /\ rpc = "attempt" => Len(sleeps) = attempt
    /\ (rpc = "returned" /\ result.error = "execute") =>
          Len(sleeps) = MaxRetries - 1

\* four attempts have failed: the runner slept 5, 10 and 20 seconds, and
\* not after the fourth
C30_Witness ==
    /\ maxRetriesArg = 4
    /\ rpc = "returned"
    /\ result.error = "execute"
    /\ executeCalls = 4
    /\ sleeps = <<5, 10, 20>>

\* the step in which the call of acquire in progress returns
AcquireReturns == lpc # "idle" /\ lpc' = "idle"

\* C31: with a single caller and the effective limit L, within one UTC
\* minute exactly the first L calls of acquire return True, the first
\* setting the counter to 1 and the others incrementing it up to L; a
\* further call does not return True in that minute: it returns False if
\* its timeout elapses no later than the minute does, and else it returns
\* True in the next minute.
C31_FirstLAcquire ==
    [][/\ AcquireReturns =>
            IF acquireCalls <= 54
            THEN /\ acquireRet' = "true"
                 /\ minuteCount' = acquireCalls
                 /\ acquireTrue' = acquireCalls
                 /\ waited' = 0
            ELSE /\ acquireRet' # "true"
                 /\ minuteCount' = 54
                 /\ acquireTrue' = 54
                 /\ acquireRet' = "false" <=>
                        timeoutArg <= 60 - (second' - waited')
                 /\ acquireRet' = "false" => waited' = timeoutArg
                 /\ acquireRet' = "true_next_minute" => second' = 60
       /\ minuteCount' <= 54
      ]_vars

\* 54 calls have returned True and the 55th, with a timeout of one
\* second, has returned False before the minute was over
C31_Witness ==
    /\ lpc = "idle"
    /\ acquireCalls = RpmLimit + 1
    /\ acquireTrue = RpmLimit
    /\ minuteCount = RpmLimit
    /\ acquireRet = "false"
    /\ second < 60

\* the 55th call has waited for the next minute and returned True there
C31_WitnessNextMinute ==
    /\ lpc = "idle"
    /\ acquireCalls = RpmLimit + 1
    /\ acquireTrue = RpmLimit
    /\ acquireRet = "true_next_minute"
    /\ waited < timeoutArg

----------------------------------------------------------------------------
(* Translate, step by step *)

\* the steps of one attempt that gets to the store
FullAttempt == <<"acquire", "request", "parse", "validate", "store">>

\* s is the beginning of t
IsPrefix(s, t) == Len(s) <= Len(t) /\ s = SubSeq(t, 1, Len(s))

\* the positions at which the attempts begin: the steps after the probe
\* and after the step that ended a failed attempt
RECURSIVE AttemptsOf(_, _)
AttemptsOf(list, cur) ==
    IF list = << >> THEN (IF cur = << >> THEN << >> ELSE << cur >>)
    ELSE IF Head(list) \in {"acquire", "acquire_timeout"} /\ cur # << >>
         THEN << cur >> \o AttemptsOf(Tail(list), << Head(list) >>)
         ELSE AttemptsOf(Tail(list), Append(cur, Head(list)))

\* C32: within translate the steps of a chunk follow the order probe
\* cache, acquire token, LLM request, parse, validate, store. On a cache
\* hit neither an acquire nor a request happens; no request is issued
\* unless the acquire just before it, in the same attempt, returned True;
\* and a list is stored in the cache only after it passed the parser and
\* the quality validation, in the same attempt.
C32_StepOrder ==
    [][/\ steps' # << >> => steps'[1] = "probe"
       /\ \A k \in 2..Len(steps') : steps'[k] # "probe"
       /\ (xpc = "start" /\ cacheEnabled /\ cacheEntry # << >>) =>
             /\ steps' = <<"probe">>
             /\ xpc' = "returned"
             /\ xret' = cacheEntry
       /\ LET attempts == AttemptsOf(Tail(steps'), << >>)
          IN  \A a \in 1..Len(attempts) :
                 \/ attempts[a] = <<"acquire_timeout">>
                 \/ IsPrefix(attempts[a], FullAttempt)
       /\ cacheEntry' # cacheEntry =>
             /\ xpc = "store"
             /\ cacheEntry' = translations
             /\ ParseResponse(response, Len(texts)).ok
             /\ translations = ParseResponse(response, Len(texts)).translations
             /\ 10 * CriticalErrors(translations) < Len(texts)
             /\ Len(steps) >= 4
             /\ SubSeq(steps', Len(steps') - 4, Len(steps')) = FullAttempt
      ]_vars

\* a second attempt has stored its list in the cache, after a first one
\* whose response was refused
C32_Witness ==
    /\ xpc = "returned"
    /\ xattempt = 1
    /\ steps = <<"probe", "acquire", "request", "parse">> \o FullAttempt
    /\ cacheEntry = xret
    /\ xret # << >>

\* a hit: the list of the cache is returned after the probe alone
C32_WitnessHit ==
    /\ xpc = "returned"
    /\ steps = <<"probe">>
    /\ xret = cacheEntry
    /\ xret # << >>

\* an attempt that did not get the token made no request
C32_WitnessNoToken ==
    /\ xpc = "raised"
    /\ steps = <<"probe", "acquire_timeout", "acquire_timeout">>

\* the response lacks an id or a translation in one of its items
LacksField(content) ==
    \E i \in 1..Len(content.items) :
        ~content.items[i].has_id \/ ~content.items[i].has_translation

\* the ids of the items are 0, 1, ... in some order
IdsOfTexts(content) ==
    /\ \A i \in 1..Len(content.items) : content.items[i].has_id
    /\ {content.items[i].id : i \in 1..Len(content.items)} =
           0..(Len(content.items) - 1)

\* translate has returned the list it made of a response
ReturnedParsed == xpc = "returned" /\ steps # <<"probe">>

\* C35: the response of a chunk is rejected, the attempt failing, whenever
\* it lacks the translations list, its number of items differs from the
\* number of texts, or any item lacks its id or its translation; otherwise
\* the result is the translation values of the items in ascending order of
\* id, translation i belonging to text i.
C35_DefectsRejected ==
    ReturnedParsed =>
        /\ response.kind = "list"
        /\ Len(response.items) = Len(texts)
        /\ ~LacksField(response)
        /\ IdsOfTexts(response) =>
              \A i \in 1..Len(response.items) :
                  xret[response.items[i].id + 1] =
                      response.items[i].translation

\* what the parser and the validator do reject: a response without the
\* list or with another number of items, and, in a chunk of fewer than
\* ten texts, an item without translation, which counts as an empty one;
\* the list returned is in the order of id when the ids are those of the
\* texts
C35_ShapeRejected ==
    ReturnedParsed =>
        /\ response.kind = "list"
        /\ Len(response.items) = Len(texts)
        /\ Len(texts) < 10 =>
              \A i \in 1..Len(response.items) :
                  response.items[i].has_translation
        /\ IdsOfTexts(response) =>
              \A i \in 1..Len(response.items) :
                  xret[response.items[i].id + 1] =
                      response.items[i].translation

\* two items came back in the order of id 1, id 0 and the list returned
\* is in the order of the texts
C35_WitnessSorted ==
    /\ ReturnedParsed
    /\ Len(texts) = 2
    /\ response.items[1].has_id /\ response.items[1].id = 1
    /\ response.items[2].has_id /\ response.items[2].id = 0
    /\ xret = <<response.items[2].translation, response.items[1].translation>>
    /\ xret[1] # xret[2]

\* the empty or blank entries of a list
Criticals(list) == {i \in 1..Len(list) : list[i] \in {"", " "}}

C36_WitnessPass ==
    /\ verdict = [total |-> 10, critical_errors |-> 0, is_valid |-> TRUE]
    /\ xpc = "returned"
    /\ Len(xret) = 10

----------------------------------------------------------------------------
(* Flagged segments in the translation phase *)

\* the positions of the segments flagged suspected_hallucination
Flagged(segs) == {p \in 1..Len(segs) : segs[p].suspected_hallucination}

\* the positions that are in some chunk
Chunked == UNION {InChunk(tchunks[c]) : c \in 1..Len(tchunks)}

\* the number of segments of the chunks
RECURSIVE SegmentsOf(_)
SegmentsOf(cs) == IF cs = << >> THEN 0 ELSE Len(Head(cs)) + SegmentsOf(Tail(cs))

\* C33: segments flagged suspected_hallucination are never put in a chunk
\* or sent to the LLM; after the translation phase their tgt_text is still
\* null and their translation.status is still pending, and they count
\* neither as failed nor toward the total of chunks of the abort ratio:
\* the chunks are those of the other segments alone.
C33_FlaggedSkipped ==
    /\ tpc \in {"loop", "done"} =>
          /\ Chunked = (1..Len(tjob)) \ Flagged(tjob)
          /\ SegmentsOf(tchunks) = Len(tjob) - Cardinality(Flagged(tjob))
          /\ Len(tsegs) = Len(tjob)
          /\ \A p \in Flagged(tjob) : tsegs[p] = tjob[p]
          /\ failed_chunks <= Len(tchunks)
    /\ \A p \in Flagged(tjob) :
          /\ tjob[p].tgt_text = NoText
          /\ tjob[p].translation.status = "pending"
          /\ tjob[p].translation.retries = 0
    /\ (tpc = "done" /\ tresult = "failure") =>
          2 * failed_chunks > Len(tchunks)

\* the phase has succeeded on three segments, the first flagged: one of
\* the two chunks failed, which is half of them and not a third, and the
\* flagged segment is on file as it was
C33_Witness ==
    /\ tpc = "done"
    /\ tresult = "success"
    /\ Len(tjob) = 3
    /\ Flagged(tjob) = {1}
    /\ Len(tchunks) = 2
    /\ failed_chunks = 1
    /\ tjob[1].tgt_text = NoText
    /\ tjob[1].translation.status = "pending"
    /\ \E p \in {2, 3} : tjob[p].translation.status = "completed"

\* every segment is flagged: the phase succeeds without a chunk
C33_WitnessAllFlagged ==
    /\ tpc = "done"
    /\ tresult = "success"
    /\ Len(tjob) = 2
    /\ Flagged(tjob) = {1, 2}
    /\ tchunks = << >>
    /\ tcalls = << >>

----------------------------------------------------------------------------
(* Failed translations in the TTS phase *)

\* the positions the TTS phase gave to synthesize
Synthesized == {synthesized[k] : k \in 1..Len(synthesized)}

\* the segments on file whose chunk failed translation: status failed,
\* tgt_text the src_text, not flagged
FallbackSegments ==
    {p \in 1..Len(tjob) :
        /\ tjob[p].translation.status = "failed"
        /\ tjob[p].tgt_text = tjob[p].src_text
        /\ ~tjob[p].suspected_hallucination}

\* C34: a segment whose chunk failed translation (translation.status =
\* failed, tgt_text set to the src_text fallback) is still given to the
\* TTS phase for synthesis, provided it is not flagged as a
\* hallucination.
C34_FallbackSynthesized ==
    (ypc = "done" /\ yresult = "success") =>
        FallbackSegments \subseteq Synthesized

\* what TTSPhase.execute does: it gives to synthesize the segments whose
\* translation is completed and that are not flagged, each once and in
\* order, and no other; a segment with the fallback text is never one of
\* them
C34_OnlyCompletedSynthesized ==
    /\ \A p \in Synthesized :
          /\ tjob[p].translation.status = "completed"
          /\ ~tjob[p].suspected_hallucination
    /\ FallbackSegments \cap Synthesized = {}
    /\ (ypc = "done" /\ yresult = "success") =>
          Synthesized = {p \in 1..Len(tjob) :
                            /\ tjob[p].translation.status = "completed"
                            /\ ~tjob[p].suspected_hallucination}

\* the TTS phase has succeeded on a job with a segment of a failed chunk,
\* which it has not synthesized
C34_WitnessLeftOut ==
    /\ ypc = "done"
    /\ yresult = "success"
    /\ FallbackSegments # {}
    /\ Synthesized # {}

----------------------------------------------------------------------------
(* Length of the message for an unknown error *)

\* translate has returned for an error that matches no pattern
UnknownTranslated == epc = "returned" /\ technical_error.pattern = 0

\* C37 as stated: for a technical error that matches no pattern of the
\* table, the message returned is at most 200 characters long, whatever
\* the length of the technical error.
C37_AtMost200 == UnknownTranslated => message.length <= 200

\* C37: for a technical error that matches no pattern of the table, the
\* message returned is at most 203 characters long, whatever the length
\* of the technical error: a simplified error of more than 200 characters
\* is cut to its first 200 followed by three dots, a shorter one is
\* returned whole, and an empty one gives the fixed phrase.
C37_AtMost203 ==
    UnknownTranslated =>
        LET n == technical_error.length - technical_error.removed
        IN  /\ message.length <= 203
            /\ n > 200 => message.length = 203
            /\ (0 < n /\ n <= 200) => message.length = n
            /\ n = 0 => message.kind = "unexpected" /\ message.length = 15

\* an error of 202 characters, 201 after the simplification, has come
\* back as 203
C37_Witness ==
    /\ UnknownTranslated
    /\ technical_error.length = 202
    /\ technical_error.removed = 1
    /\ message = [kind |-> "simplified", length |-> 203]

----------------------------------------------------------------------------
(* Results of execute() with success = false *)

\* C38: the runner merges metadata into the job record only for an
\* execute() result with success = true; a result with success = false
\* that execute() returns without raising counts as a failed attempt, is
\* retried, and persists nothing: run() returns a failure of execute()
\* only after the last attempt, and with the record as it was.
C38_MergeOnlyOnSuccess ==
    [][/\ pjob' # pjob => result'.success
       /\ (rpc = "attempt" /\ rpc' = "returned" /\ ~result'.success) =>
             /\ executeCalls' = MaxRetries
             /\ pjob' = pjob
      ]_vars

\* what run() does with a result that execute() returns: whatever its
\* success, the metadata is merged into the record, the result is
\* returned in the same attempt, and no further attempt is made
C38_ReturnedResultPersisted ==
    [][(rpc = "attempt" /\ rpc' = "returned"
           /\ result'.error \notin RunnerFailures) =>
          /\ pjob' = IF resultMetadata'.d = << >> THEN pjob
                     ELSE MergeMetadata(pjob, resultMetadata')
          /\ attempt' = attempt
          /\ Len(sleeps') = attempt
      ]_vars

\* execute() has returned success = false with metadata at the first
\* attempt: run() has returned it and the record has changed
C38_WitnessFailurePersisted ==
    /\ rpc = "returned"
    /\ ~result.success
    /\ result.error = "result"
    /\ executeCalls = 1
    /\ attempt = 0
    /\ resultMetadata.d # << >>
    /\ pjob = MergeMetadata(pjob, resultMetadata)

----------------------------------------------------------------------------
(* Required fields of a freshly created record *)

\* the record create_job writes, by the keys the registry names:
\* source.url and the two languages are set, media.duration_sec is None,
\* segments and speakers are empty lists
CreatedRecord ==
    Dict([k \in {"source", "media", "languages", "segments", "speakers"} |->
            CASE k = "source" -> Dict([j \in {"url"} |-> Scalar])
              [] k = "media" -> Dict([j \in {"duration_sec"} |-> Scalar])
              [] k = "languages" ->
                   Dict([j \in {"src_lang", "tgt_lang"} |-> Scalar])
              [] k = "segments" -> ListVal
              [] k = "speakers" -> ListVal])

\* normalize, vad and ref_audio
PhasesOfUnpopulatedFields == {"pre_1", "pre_3.5", "pre_4"}

\* run() starts one of the three phases on the record as created, with
\* the scratch file of the phase in place
StartsOnCreatedRecord ==
    /\ rpc = "start"
    /\ pjob = CreatedRecord
    /\ ppid \in PhasesOfUnpopulatedFields
    /\ MissingFiles(PHASE_DEPENDENCIES[ppid], scratch) = {}

\* C39: a required job-record field counts as present only once it has
\* been populated: on a freshly created record (media.duration_sec null,
\* segments and speakers empty) the precondition check of the normalize,
\* vad and ref_audio phases fails on the field requirement even when the
\* required scratch file exists.
C39_CreatedRecordFails ==
    [][StartsOnCreatedRecord =>
          /\ rpc' = "returned"
          /\ ~result'.success
          /\ result'.error = "field"
      ]_vars

\* what the check does: a field path is present when each of its keys is
\* in a dict, whatever the value at its end; the record as created meets
\* the field requirement of the three phases and execute() is attempted
C39_CreatedRecordPasses ==
    [][StartsOnCreatedRecord =>
          /\ MissingFields(PHASE_DEPENDENCIES[ppid], pjob) = {}
          /\ rpc' = "attempt"
          /\ executeCalls' = 0
          /\ pjob' = pjob
      ]_vars

\* the vad phase has been given its first attempt on the record as
\* created, whose segments are the empty list
C39_WitnessAttempted ==
    /\ rpc = "attempt"
    /\ attempt = 0
    /\ executeCalls = 0
    /\ ppid = "pre_3.5"
    /\ pjob = CreatedRecord
    /\ "pre_voice.wav" \in scratch

----------------------------------------------------------------------------
(* PIN store under the sweep *)

\* the key holds a PIN that generate_pin wrote
HoldsPin == Live(redis, now) /\ redis.pin # 0

\* C40: a PIN returned by generate stays verifiable until its expiry even
\* when cleanup_expired runs concurrently: no interleaving of generate's
\* write step and set-expiry step with the sweep deletes the new entry,
\* and once generate has returned the entry always carries an expiry.
C40_SweepSparesNewPin ==
    [][/\ (HoldsPin /\ sweepPc' # sweepPc) => redis' = redis
       /\ (HoldsPin' /\ gpc' = "idle") => redis'.expires # NoTime
      ]_vars

\* the part of C40 that holds: an entry with a PIN that is there once
\* generate has returned carries an expiry, and the sweep deletes only a
\* key for which TTL has answered -1
C40_ReturnedEntryHasExpiry ==
    [][/\ (HoldsPin' /\ gpc' = "idle") => redis'.expires # NoTime
       /\ (sweepPc' # sweepPc /\ redis' # redis) =>
             /\ sweepPc = "delete"
             /\ redis' = NoKey
      ]_vars

\* generate_pin has returned and there is no entry for its PIN: the sweep
\* deleted it with the expiry generate_pin had set, and verify_pin has
\* answered that the PIN is not found
C40_WitnessDeleted ==
    /\ gpc = "idle"
    /\ sweepPc = "idle"
    /\ redis = NoKey
    /\ now = 0
    /\ swept.pin # 0
    /\ swept.expires = PIN_EXPIRY_HOURS
    /\ vres["c1"] = Returned(FALSE, "not found", 0)

====
